---- MODULE Spec2Model ----
(***************************************************************************)
(* Agent Orchestration & IPC core of ai-bridge-cli:                        *)
(*   backend/workflow.py              WorkflowEngine                       *)
(*   backend/communication.py         MessageBus                           *)
(*   backend/terminal_manager.py      TerminalManager                      *)
(*   backend/process_communicator.py  ProcessCommunicator                  *)
(*   backend/orchestrator.py          AgentOrchestrator                    *)
(* Optional Python values (None or an object) are sequences of length 0    *)
(* or 1.  Timestamps are left out wherever no control flow reads them.     *)
(* A variable that holds a return value holds the value of the last call.  *)
(***************************************************************************)
EXTENDS Integers, Sequences, FiniteSets, TLC

VARIABLES
    current_workflow,   \* WorkflowEngine.current_workflow: <<>> or <<WorkflowExecution>>
    metrics,            \* WorkflowEngine.metrics (the workflow counters)
    wf_ret,             \* the bool the last WorkflowEngine call returned
    blockers,           \* the records the last detect_blockers call returned
    bus,                \* the MessageBus object
    send_ret,           \* what the last MessageBus.send_message call returned
    send_raised,        \* whether the last MessageBus.send_message call ended in an exception
    recv_ret,           \* what the last MessageBus.receive_message call returned: <<>> or <<Message>>
    terminal_manager,   \* the TerminalManager object
    os_process,         \* the spawned CLI processes and their pipes, by process id
    start_call,         \* the ids whose start_terminal call is in its asyncio.sleep(2)
    send_call,          \* the TerminalManager.send_message call waiting for a response: <<>> or <<id>>
    term_ret,           \* how the last TerminalManager call ended
    now,                \* the clock of _receive_with_silent_period, in ticks since the call began
    receiver,           \* the locals of the _receive_with_silent_period call
    producer,           \* the process the call reads from: its printing rhythm and its stdout pipe
    session,            \* AgentOrchestrator.session: <<>> or <<OrchestrationSession>>
    agents,             \* the status of the orchestrator's agent_a and agent_b objects
    loop_tasks,         \* the live _orchestration_loop tasks: how many stand at each position
    session_file,       \* the session files _save_session has written, by session id
    orch_ret,           \* how the last AgentOrchestrator call ended
    transform_ret,      \* the last MessageTransformationEngine.transform_message call: <<>> or <<its arguments and result>>
    event_handlers,     \* MessageBus.event_handlers: the event types with a handler that suspends
    send_calls          \* the send_message calls made as tasks of one event loop, with their locals

wfVars == <<current_workflow, metrics, wf_ret, blockers>>

busVars == <<bus, send_ret, send_raised, recv_ret>>

termVars == <<terminal_manager, os_process, start_call, send_call, term_ret>>

recvVars == <<now, receiver, producer>>

orchVars == <<session, agents, loop_tasks, session_file, orch_ret>>

engineVars == <<transform_ret>>

callVars == <<event_handlers, send_calls>>

(***************************************************************************)
(* backend/workflow.py                                                     *)
(***************************************************************************)

WorkflowPhase == {"initialization", "planning", "implementation", "review", "iteration", "completed", "failed", "paused"}

TaskStatus == {"pending", "in_progress", "completed", "failed", "blocked", "skipped"}

\* WorkflowExecution.max_iterations, the dataclass default; start_workflow never overrides it.
max_iterations == 10

\* How far past max_iterations the model lets iteration_count run.
IterSlack == 1

\* Caps on the metrics counters workflows_started and workflows_completed.
MaxStarts == 1

MaxCompletions == 2

\* Objectives the model starts workflows with, under a template name that is
\* not registered, so that the tasks come from _generate_dynamic_tasks.
Objectives == {"make a cli tool", "make a ui", "make an api"}

\* is_frontend of _generate_dynamic_tasks: one of "ui", "frontend", "interface",
\* "website", "app" occurs in the objective.
is_frontend(objective) == objective = "make a ui"

\* is_backend of _generate_dynamic_tasks: one of "api", "backend", "server",
\* "database" occurs in the objective.
is_backend(objective) == objective = "make an api"

Task(name, deps) == [name |-> name, dependencies |-> deps, status |-> "pending"]

\* all_tasks as _generate_dynamic_tasks builds it: planning, implementation, review.
generate_dynamic_tasks(objective) ==
    <<Task("analyze_objective", <<>>)>>
    \o (IF is_frontend(objective) THEN <<Task("frontend_planning", <<"analyze_objective">>)>> ELSE <<>>)
    \o (IF is_backend(objective) THEN <<Task("backend_planning", <<"analyze_objective">>)>> ELSE <<>>)
    \o (IF is_frontend(objective) THEN <<Task("implement_frontend", <<>>)>> ELSE <<>>)
    \o (IF is_backend(objective) THEN <<Task("implement_backend", <<>>)>> ELSE <<>>)
    \o <<Task("solution_review", <<>>)>>

\* The WorkflowExecution start_workflow leaves behind.
NewWorkflow(objective) ==
    [ objective       |-> objective,
      state           |-> "running",
      current_phase   |-> "planning",
      all_tasks       |-> generate_dynamic_tasks(objective),
      iteration_count |-> 0,
      max_iterations  |-> max_iterations ]

\* all_tasks as _generate_tasks_from_template builds it from the template
\* "fullstack_development": planning, implementation, review.
fullstack_development_tasks ==
    << Task("analyze_requirements", <<>>),
       Task("frontend_planning", <<"analyze_requirements">>),
       Task("backend_planning", <<"analyze_requirements">>),
       Task("integration_planning", <<"frontend_planning", "backend_planning">>),
       Task("backend_foundation", <<>>),
       Task("frontend_foundation", <<>>),
       Task("api_integration", <<"backend_foundation", "frontend_foundation">>),
       Task("feature_implementation", <<"api_integration">>),
       Task("code_review", <<>>),
       Task("integration_testing", <<"code_review">>),
       Task("user_experience_review", <<"integration_testing">>) >>

\* The WorkflowExecution start_workflow leaves behind under its default
\* template, "fullstack_development".
NewTemplateWorkflow(objective) ==
    [ objective       |-> objective,
      state           |-> "running",
      current_phase   |-> "planning",
      all_tasks       |-> fullstack_development_tasks,
      iteration_count |-> 0,
      max_iterations  |-> max_iterations ]

\* _complete_workflow with the InProgress branch lost.
complete_workflow_keeps_in_progress(w) ==
    [w EXCEPT !.state = "completed",
              !.all_tasks = [i \in DOMAIN w.all_tasks |->
                  IF w.all_tasks[i].status = "pending"
                  THEN [w.all_tasks[i] EXCEPT !.status = "skipped"]
                  ELSE w.all_tasks[i]]]

\* _complete_workflow: the workflow it leaves behind.
complete_workflow(w) ==
    [w EXCEPT !.state = "completed",
              !.all_tasks = [i \in DOMAIN w.all_tasks |->
                  IF w.all_tasks[i].status = "pending"
                  THEN [w.all_tasks[i] EXCEPT !.status = "skipped"]
                  ELSE IF w.all_tasks[i].status = "in_progress"
                  THEN [w.all_tasks[i] EXCEPT !.status = "completed"]
                  ELSE w.all_tasks[i]]]

\* Whether advance_phase(next_phase) on w runs _complete_workflow.
advance_completes(w, next_phase) ==
    \/ next_phase = "completed"
    \/ next_phase = "iteration" /\ ~(w.iteration_count + 1 < w.max_iterations)

\* advance_phase(next_phase): the workflow it leaves behind.
advance_phase(w, next_phase) ==
    LET w1 == [w EXCEPT !.current_phase = next_phase] IN
    IF next_phase = "completed" THEN complete_workflow(w1)
    ELSE IF next_phase = "iteration"
    THEN LET w2 == [w1 EXCEPT !.iteration_count = @ + 1] IN
         IF w2.iteration_count < w2.max_iterations
         THEN [w2 EXCEPT !.current_phase = "implementation"]
         ELSE complete_workflow(w2)
    ELSE w1

\* update_task_status(task_id, status): task ids are positions in all_tasks.
update_task_status(w, task_id, status) ==
    IF task_id \in DOMAIN w.all_tasks
    THEN [w EXCEPT !.all_tasks[task_id].status = status]
    ELSE w

\* next((t for t in all_tasks if t.name == dep_name), None): <<>> or <<task>>.
find_task_by_name(tasks, dep_name) ==
    LET hits == {i \in DOMAIN tasks : tasks[i].name = dep_name} IN
    IF hits = {} THEN <<>>
    ELSE <<tasks[CHOOSE i \in hits : \A j \in hits : i <= j]>>

\* The (task, dependency) positions the nested loops of detect_blockers visit.
dependency_positions(tasks) ==
    UNION { { <<i, k>> : k \in DOMAIN tasks[i].dependencies } : i \in DOMAIN tasks }

blocker(type, task_name, failed_dependency) ==
    [type |-> type, task_name |-> task_name, failed_dependency |-> failed_dependency]

\* The failed_dependency loop of detect_blockers without its Pending test.
failed_dependency_blockers_any_status(tasks) ==
    { blocker("failed_dependency", tasks[p[1]].name, tasks[p[1]].dependencies[p[2]]) :
        p \in { q \in dependency_positions(tasks) :
            /\ find_task_by_name(tasks, tasks[q[1]].dependencies[q[2]]) # <<>>
            /\ find_task_by_name(tasks, tasks[q[1]].dependencies[q[2]])[1].status = "failed" } }

\* The failed_dependency loop of detect_blockers.
failed_dependency_blockers(tasks) ==
    { blocker("failed_dependency", tasks[p[1]].name, tasks[p[1]].dependencies[p[2]]) :
        p \in { q \in dependency_positions(tasks) :
            /\ tasks[q[1]].status = "pending"
            /\ find_task_by_name(tasks, tasks[q[1]].dependencies[q[2]]) # <<>>
            /\ find_task_by_name(tasks, tasks[q[1]].dependencies[q[2]])[1].status = "failed" } }

\* detect_blockers: the records it returns.  Whether a task is stuck and whether
\* the phase is long-running depend on the wall clock, so the caller passes them.
detect_blockers(w, stuck, long_running) ==
    { blocker("stuck_task", w.all_tasks[i].name, "") :
        i \in {j \in stuck : w.all_tasks[j].status = "in_progress"} }
    \cup failed_dependency_blockers(w.all_tasks)
    \cup (IF long_running THEN {blocker("long_running_phase", w.current_phase, "")} ELSE {})

InitWf ==
    /\ current_workflow = <<>>
    /\ metrics = [workflows_started |-> 0, workflows_completed |-> 0]
    /\ wf_ret = TRUE
    /\ blockers = {}

\* start_workflow(objective, workspace, template) with an unregistered template name.
StartWorkflow(objective) ==
    /\ metrics.workflows_started < MaxStarts
    /\ current_workflow' = <<NewWorkflow(objective)>>
    /\ metrics' = [metrics EXCEPT !.workflows_started = @ + 1]
    /\ wf_ret' = TRUE
    /\ blockers' = {}

\* advance_phase(next_phase) -> bool
AdvancePhase(next_phase) ==
    /\ IF current_workflow = <<>>
       THEN /\ wf_ret' = FALSE
            /\ UNCHANGED <<current_workflow, metrics>>
       ELSE /\ next_phase = "iteration" =>
                   current_workflow[1].iteration_count < max_iterations + IterSlack
            /\ advance_completes(current_workflow[1], next_phase) =>
                   metrics.workflows_completed < MaxCompletions
            /\ current_workflow' = <<advance_phase(current_workflow[1], next_phase)>>
            /\ metrics' = IF advance_completes(current_workflow[1], next_phase)
                          THEN [metrics EXCEPT !.workflows_completed = @ + 1]
                          ELSE metrics
            /\ wf_ret' = TRUE
    /\ blockers' = {}

\* update_task_status(task_id, status) -> bool
UpdateTaskStatus(task_id, status) ==
    /\ current_workflow # <<>>
    /\ current_workflow' = <<update_task_status(current_workflow[1], task_id, status)>>
    /\ wf_ret' = (task_id \in DOMAIN current_workflow[1].all_tasks)
    /\ blockers' = {}
    /\ UNCHANGED metrics

\* detect_blockers() -> list of blocker records
DetectBlockers ==
    /\ current_workflow # <<>>
    /\ \E stuck \in SUBSET DOMAIN current_workflow[1].all_tasks, long_running \in BOOLEAN :
        blockers' = detect_blockers(current_workflow[1], stuck, long_running)
    /\ UNCHANGED <<current_workflow, metrics, wf_ret>>

\* pause_workflow() -> bool
PauseWorkflow ==
    /\ IF current_workflow # <<>> /\ current_workflow[1].state = "running"
       THEN /\ current_workflow' = <<[current_workflow[1] EXCEPT !.state = "paused"]>>
            /\ wf_ret' = TRUE
       ELSE /\ UNCHANGED current_workflow
            /\ wf_ret' = FALSE
    /\ blockers' = {}
    /\ UNCHANGED metrics

\* resume_workflow() -> bool
ResumeWorkflow ==
    /\ IF current_workflow # <<>> /\ current_workflow[1].state = "paused"
       THEN /\ current_workflow' = <<[current_workflow[1] EXCEPT !.state = "running"]>>
            /\ wf_ret' = TRUE
       ELSE /\ UNCHANGED current_workflow
            /\ wf_ret' = FALSE
    /\ blockers' = {}
    /\ UNCHANGED metrics

\* WorkflowEngine.stop(): the workflow it leaves behind.
workflow_stop(w) == [w EXCEPT !.state = "failed"]

\* WorkflowEngine.stop() -> bool
StopWorkflow ==
    /\ IF current_workflow # <<>>
       THEN /\ current_workflow' = <<workflow_stop(current_workflow[1])>>
            /\ wf_ret' = TRUE
       ELSE /\ UNCHANGED current_workflow
            /\ wf_ret' = FALSE
    /\ blockers' = {}
    /\ UNCHANGED metrics

(***************************************************************************)
(* backend/communication.py                                                *)
(***************************************************************************)

\* Message bodies.  The code reads a body only through its length and through
\* substring tests, so a body is its text, its length and the keywords of those
\* tests that occur in it.
Content(text, len, words) == [text |-> text, len |-> len, words |-> words]

Hello == Content("hello", 5, {})

NeedApi == Content("need api for login", 18, {"need api", "api"})

PleaseReview == Content("please review", 13, {"review"})

ApiReady == Content("api ready", 9, {"api", "ready"})

\* A report that meets the api_implementation_complete rule as it is.
ImplementationCompleted == Content("api implementation completed", 28, {"implementation completed", "api", "implement", "complete", "completed", "implemented"})

Empty == Content("", 0, {})

\* content=None: a caller that has no body to send.
NoneContent == Content("None", 0, {"None"})

\* The size limit of _validate_message.
MaxContentLength == 50000

Oversize == Content("x repeated", MaxContentLength + 1, {})

\* How many send_message calls callers make.
MaxSends == 2

\* How many queries callers make of the bus.
MaxQueries == 2

\* The count and session_id arguments of the queries; "" is None.
QueryCounts == {1, 10}

QuerySessions == {"", "s1"}

\* sorted() on the identifiers the model uses.
IdRank ==
    [ id \in {"agent_a", "agent_b", "agent_backend", "agent_frontend", "all", "backend", "both", "frontend", "orchestrator", "system", "user"} |->
        CASE id = "agent_a" -> 0 [] id = "agent_b" -> 1 [] id = "agent_backend" -> 2 [] id = "agent_frontend" -> 3
          [] id = "all" -> 4 [] id = "backend" -> 5 [] id = "both" -> 6 [] id = "frontend" -> 7
          [] id = "orchestrator" -> 8 [] id = "system" -> 9 [] id = "user" -> 10 ]

\* A Message as its caller constructs it; the bus gives it its id on entry.
Msg(type, sender, recipient, content, session_id) ==
    [ id |-> 0, type |-> type, sender |-> sender, recipient |-> recipient,
      content |-> content, session_id |-> session_id, reply_to |-> 0 ]

\* The messages callers submit.
SubmittedMessages ==
    { Msg("task", "orchestrator", "agent_frontend", Hello, "s1"),
      Msg("task", "orchestrator", "agent_a", Hello, "s1"),
      Msg("response", "agent_backend", "agent_frontend", Hello, "s2"),
      Msg("task", "orchestrator", "user", Hello, "s1"),
      Msg("response", "agent_frontend", "agent_backend", NeedApi, "s1"),
      Msg("response", "agent_frontend", "agent_backend", PleaseReview, "s1"),
      Msg("response", "agent_backend", "agent_frontend", ApiReady, "s1"),
      Msg("coordination", "orchestrator", "both", Hello, "s1"),
      Msg("system", "system", "all", Hello, "s1"),
      Msg("system", "system", "system", Hello, "s1"),
      Msg("system", "agent_frontend", "agent_frontend", NeedApi, "s1"),
      Msg("task", "agent_frontend", "agent_frontend", Hello, "s1"),
      Msg("task", "orchestrator", "agent_backend", Empty, "s1"),
      Msg("task", "orchestrator", "agent_backend", Oversize, "s1"),
      Msg("task", "orchestrator", "agent_backend", NoneContent, "s1"),
      Msg("task", "", "agent_backend", Hello, "s1"),
      Msg("task", "orchestrator", "", Hello, "s1"),
      Msg("task", "orchestrator", "agent_backend", Hello, "") }

\* _validate_message without the exemption of SYSTEM messages.
validate_message_no_system_exemption(m) ==
    /\ m.sender # "" /\ m.recipient # "" /\ m.content.len # 0 /\ m.session_id # ""
    /\ ~(m.content.len > MaxContentLength)
    /\ ~(m.sender = m.recipient)

\* _validate_message without the test for circular references.
validate_message_no_circular_test(m) ==
    /\ m.sender # "" /\ m.recipient # "" /\ m.content.len # 0 /\ m.session_id # ""
    /\ ~(m.content.len > MaxContentLength)

\* _validate_message
validate_message(m) ==
    /\ m.sender # "" /\ m.recipient # "" /\ m.content.len # 0 /\ m.session_id # ""
    /\ ~(m.content.len > MaxContentLength)
    /\ ~(m.sender = m.recipient /\ m.type # "system")

\* _get_agent_role: the configured mapping, then inference from the identifier
\* ("frontend"/"ui", "backend"/"api", "orchestrator"/"manager"); "" is None.
get_agent_role(agent_identifier) ==
    CASE agent_identifier \in {"agent_frontend", "frontend"} -> "frontend"
      [] agent_identifier \in {"agent_backend", "backend"} -> "backend"
      [] agent_identifier = "orchestrator" -> "orchestrator"
      [] OTHER -> ""

\* _get_registered_agent_role: a registered id that equals the identifier or
\* ends it gives its registered role, otherwise _get_agent_role decides.
get_registered_agent_role(b, agent_identifier) ==
    IF agent_identifier \in DOMAIN b.registered_agents
    THEN b.registered_agents[agent_identifier].role
    ELSE get_agent_role(agent_identifier)

\* _determine_template_id; "" is None.
determine_template_id(m, sender_role, recipient_role) ==
    IF sender_role = "frontend" /\ recipient_role = "backend"
    THEN IF {"api", "endpoint", "implement"} \cap m.content.words # {}
         THEN "frontend_to_backend_api_request" ELSE ""
    ELSE IF sender_role = "backend" /\ recipient_role = "frontend"
    THEN IF {"complete", "ready", "implemented"} \cap m.content.words # {}
         THEN "backend_to_frontend_api_ready" ELSE ""
    ELSE IF sender_role = "orchestrator"
    THEN IF recipient_role = "frontend" THEN "orchestrator_to_frontend_task"
         ELSE IF recipient_role = "backend" THEN "orchestrator_to_backend_task"
         ELSE ""
    ELSE ""

\* The body template.format(...) renders from the template's text and the
\* default field values of _set_default_values.
rendered_template(template_id) ==
    CASE template_id = "frontend_to_backend_api_request" ->
            Content(template_id, 925, {"api", "endpoint", "implement", "implemented", "error"})
      [] template_id = "backend_to_frontend_api_ready" ->
            Content(template_id, 1028, {"implementation completed", "api", "endpoint", "implement",
                                        "complete", "implemented", "completed", "error"})
      [] OTHER ->
            Content(template_id, 679, {"implement", "complete", "completed"})

\* transform_message: the CONTEXT_ENRICHED message built from m.
transform_message(m, template_id, new_id) ==
    [ id |-> new_id, type |-> "context_enriched", sender |-> m.sender,
      recipient |-> m.recipient, content |-> rendered_template(template_id),
      session_id |-> m.session_id, reply_to |-> m.id ]

\* _apply_centralized_transformation: the message that goes on through the pipeline.
apply_centralized_transformation(b, m) ==
    LET sender_role    == get_registered_agent_role(b, m.sender)
        recipient_role == get_registered_agent_role(b, m.recipient)
        template_id    == determine_template_id(m, sender_role, recipient_role)
    IN IF sender_role = "" \/ recipient_role = "" \/ template_id = ""
       THEN m
       ELSE transform_message(m, template_id, b.next_id)

\* _get_conversation_id that keeps the participants in the order given.
get_conversation_id_unsorted(sender, recipient, session_id) ==
    session_id \o "_" \o sender \o "_" \o recipient

\* _get_conversation_id: f"{session_id}_{participants[0]}_{participants[1]}"
\* over the sorted pair of participants.
get_conversation_id(sender, recipient, session_id) ==
    IF IdRank[sender] <= IdRank[recipient]
    THEN session_id \o "_" \o sender \o "_" \o recipient
    ELSE session_id \o "_" \o recipient \o "_" \o sender

\* d[k] = v on a Python dict held as a function.
DictSet(d, k, v) == [x \in DOMAIN d \cup {k} |-> IF x = k THEN v ELSE d[x]]

\* _add_to_conversation
add_to_conversation(b, m) ==
    LET cid == get_conversation_id(m.sender, m.recipient, m.session_id)
        old == IF cid \in DOMAIN b.conversations THEN b.conversations[cid] ELSE <<>>
    IN [b EXCEPT !.conversations = DictSet(@, cid, Append(old, m))]

\* ConversationStateManager._determine_agent_role_from_message; "" is None.
determine_agent_role_from_message(m) ==
    CASE m.sender \in {"agent_frontend", "frontend"} -> "frontend"
      [] m.sender \in {"agent_backend", "backend"} -> "backend"
      [] m.sender = "orchestrator" -> "orchestrator"
      [] OTHER -> ""

\* The handoff_rules list of _initialize_handoff_rules, in list order.
handoff_rules ==
    << [trigger |-> "api_implementation_complete", from_role |-> "backend", to_role |-> "frontend", message_type |-> "handoff"],
       [trigger |-> "frontend_integration_request", from_role |-> "frontend", to_role |-> "backend", message_type |-> "handoff"],
       [trigger |-> "ui_components_complete", from_role |-> "frontend", to_role |-> "backend", message_type |-> "handoff"],
       [trigger |-> "review_request", from_role |-> "frontend", to_role |-> "backend", message_type |-> "review"] >>

\* rule["condition"](msg) of the rule with the given trigger.
rule_condition(trigger, m) ==
    CASE trigger = "api_implementation_complete" -> {"implementation completed", "api"} \subseteq m.content.words
      [] trigger = "frontend_integration_request" -> {"need api", "backend for", "implement endpoint"} \cap m.content.words # {}
      [] trigger = "ui_components_complete" -> {"ui completed", "components ready"} \cap m.content.words # {}
      [] OTHER -> {"review", "check", "validate"} \cap m.content.words # {}

\* _evaluate_handoff: <<>> when no rule matches, else <<first matching rule>>.
evaluate_handoff_for(m, current_agent) ==
    LET hits == { i \in DOMAIN handoff_rules :
                    handoff_rules[i].from_role = current_agent /\ rule_condition(handoff_rules[i].trigger, m) }
    IN IF hits = {} THEN <<>>
       ELSE <<handoff_rules[CHOOSE i \in hits : \A j \in hits : i <= j]>>

\* evaluate_handoff
evaluate_handoff(m) ==
    IF determine_agent_role_from_message(m) = "" THEN <<>>
    ELSE evaluate_handoff_for(m, determine_agent_role_from_message(m))

\* manage_conversation_turn with _track_progress: the turn counter and the
\* progress lists, kept under f"{session_id}_{sender}_{recipient}".
manage_conversation_turn(b, m) ==
    LET key  == m.session_id \o "_" \o m.sender \o "_" \o m.recipient
        old  == IF key \in DOMAIN b.turn_state THEN b.turn_state[key]
                ELSE [turn_count |-> 0, completed_items |-> 0, blocked_items |-> 0]
        done == {"completed", "finished", "done", "implemented", "ready"} \cap m.content.words # {}
        bad  == {"blocked", "cannot", "error", "failed", "issue"} \cap m.content.words # {}
    IN [b EXCEPT !.turn_state = DictSet(@, key,
            [ turn_count      |-> old.turn_count + 1,
              completed_items |-> old.completed_items + (IF done THEN 1 ELSE 0),
              blocked_items   |-> old.blocked_items + (IF bad THEN 1 ELSE 0) ])]

\* _add_to_queue: the queue is created when the recipient has none.
add_to_queue(b, recipient, m) ==
    LET old == IF recipient \in DOMAIN b.message_queues THEN b.message_queues[recipient] ELSE <<>>
    IN [b EXCEPT !.message_queues = DictSet(@, recipient, Append(old, m))]

\* queue_name.startswith("agent_")
is_agent_queue(queue_name) == queue_name \in {"agent_a", "agent_b", "agent_backend", "agent_frontend"}

\* The broadcast branch of _route_message: every existing agent_ queue gets m.
route_broadcast(b, m) ==
    [b EXCEPT !.message_queues =
        [q \in DOMAIN @ |-> IF is_agent_queue(q) THEN Append(@[q], m) ELSE @[q]]]

\* _route_message
route_message(b, m) ==
    IF m.recipient \in {"both", "all"} THEN route_broadcast(b, m)
    ELSE add_to_queue(b, m.recipient, m)

\* The values of the MessageType enum.
MessageType ==
    { "task", "response", "coordination", "cross_communication", "implementation",
      "review", "conflict_resolution", "status_update", "error", "system",
      "heartbeat", "autonomous_request", "autonomous_response",
      "context_enriched", "handoff", "progress_update" }

\* The line _persist_message writes: asdict(message) with the enum replaced by
\* its value, dumped as one JSON object with the fields in dataclass order.
message_data(m) ==
    << <<"type", m.type>>, <<"sender", m.sender>>, <<"recipient", m.recipient>>,
       <<"content", m.content>>, <<"session_id", m.session_id>>, <<"id", m.id>>,
       <<"reply_to", m.reply_to>> >>

\* data[key] on a parsed line.
json_get(data, key) == data[CHOOSE i \in 1..Len(data) : data[i][1] = key][2]

\* The loop body of load_conversation_history raises (and the line is skipped)
\* when a key is missing or MessageType(data['type']) is not a member.
line_raises(data) ==
    \/ \E key \in {"type", "sender", "recipient", "content", "session_id", "id", "reply_to"} :
          \A i \in 1..Len(data) : data[i][1] # key
    \/ json_get(data, "type") \notin MessageType

\* The Message load_conversation_history builds from one parsed line.
message_from_data(data) ==
    [ id |-> json_get(data, "id"), type |-> json_get(data, "type"),
      sender |-> json_get(data, "sender"), recipient |-> json_get(data, "recipient"),
      content |-> json_get(data, "content"), session_id |-> json_get(data, "session_id"),
      reply_to |-> json_get(data, "reply_to") ]

\* _persist_message that opens the log for writing instead of appending.
persist_message_overwrites(b, m) ==
    [b EXCEPT !.log = DictSet(@, m.session_id, <<message_data(m)>>)]

\* _persist_message: one more line in the session's messages.jsonl.
persist_message(b, m) ==
    LET old == IF m.session_id \in DOMAIN b.log THEN b.log[m.session_id] ELSE <<>>
    IN [b EXCEPT !.log = DictSet(@, m.session_id, Append(old, message_data(m)))]

\* The messages the lines of a log file load as, in file order.
RECURSIVE load_lines(_)
load_lines(lines) ==
    IF lines = <<>> THEN <<>>
    ELSE IF line_raises(Head(lines)) THEN load_lines(Tail(lines))
    ELSE <<message_from_data(Head(lines))>> \o load_lines(Tail(lines))

\* load_conversation_history: [] when the session has no file.
load_conversation_history(b, session_id) ==
    IF session_id \notin DOMAIN b.log THEN <<>> ELSE load_lines(b.log[session_id])

\* f"Automatic handoff initiated: {handoff_reason}"
handoff_content(trigger) ==
    CASE trigger = "api_implementation_complete" -> Content(trigger, 56, {"api", "implement", "complete"})
      [] trigger = "frontend_integration_request" -> Content(trigger, 57, {})
      [] trigger = "ui_components_complete" -> Content(trigger, 51, {"complete"})
      [] OTHER -> Content(trigger, 43, {"review"})

\* The Message _check_automatic_handoff builds for a matching rule.
handoff_message(m, rule, new_id) ==
    [ id |-> new_id, type |-> "handoff", sender |-> "system", recipient |-> rule.to_role,
      content |-> handoff_content(rule.trigger), session_id |-> m.session_id, reply_to |-> 0 ]

\* BaseAgent._get_specialization_context
specialization_context(role) ==
    IF role = "frontend" THEN "Frontend development, UI/UX design, user interaction, responsive layouts"
    ELSE "Backend development, API design, database management, server architecture"

\* BaseAgent._provide_agent_context of the agent registered as agent_id: of
\* the dict it returns, the role and the specialization.
provide_agent_context(agent_id) ==
    IF agent_id = "agent_frontend"
    THEN [agent_role |-> "frontend", specialization |-> specialization_context("frontend")]
    ELSE [agent_role |-> "backend", specialization |-> specialization_context("backend")]

\* The element of a set of one element: gives a name to an intermediate
\* result, as a local variable of the code does.
Only(S) == CHOOSE x \in S : TRUE

\* d.update(e)
DictUpdate(d, e) ==
    Only({ [k \in DOMAIN d0 \cup DOMAIN e0 |-> IF k \in DOMAIN e0 THEN e0[k] ELSE d0[k]] :
           d0 \in {d}, e0 \in {e} })

\* The provider loop of transform_message_centralized over the rest of
\* agent_context_providers: an active agent's pairs go in under
\* f"{agent_id}_{key}".
RECURSIVE add_prefixed_contexts(_, _, _)
add_prefixed_contexts(b, agent_ids, enriched_context) ==
    IF agent_ids = <<>> THEN enriched_context
    ELSE LET agent_id == Head(agent_ids)
             active   == agent_id \in DOMAIN b.registered_agents /\ b.registered_agents[agent_id].active
             prefixed == [ k \in { agent_id \o "_" \o key : key \in DOMAIN provide_agent_context(agent_id) } |->
                             provide_agent_context(agent_id)[
                                CHOOSE key \in DOMAIN provide_agent_context(agent_id) : agent_id \o "_" \o key = k] ]
         IN add_prefixed_contexts(b, Tail(agent_ids),
                IF active THEN DictUpdate(enriched_context, prefixed) ELSE enriched_context)

\* The provider loop of _enrich_context over the rest of the engine's
\* context_providers: enriched.update(provider_context).
RECURSIVE apply_context_providers(_, _)
apply_context_providers(agent_ids, enriched) ==
    IF agent_ids = <<>> THEN enriched
    ELSE apply_context_providers(Tail(agent_ids), DictUpdate(enriched, provide_agent_context(Head(agent_ids))))

\* The context transform_message_centralized and _enrich_context build for
\* m, up to the provider loop of the engine: the caller's entries, the
\* prefixed entries, the basic entries, the engine's providers' entries.
centralized_context(b, m) ==
    LET additional == [auto_generated |-> "True", centralized_pipeline |-> "True"]
        basic      == [ original_message |-> m.content.text,
                        from_agent |-> get_registered_agent_role(b, m.sender),
                        to_agent |-> get_registered_agent_role(b, m.recipient),
                        session_id |-> m.session_id ]
    IN apply_context_providers(b.context_providers,
          DictUpdate(add_prefixed_contexts(b, b.agent_context_providers, additional), basic))

\* The agents whose provider one transformation invokes, in order of the calls.
invoked_providers(b) ==
    SelectSeq(b.agent_context_providers,
              LAMBDA agent_id : agent_id \in DOMAIN b.registered_agents /\ b.registered_agents[agent_id].active)
       \o b.context_providers

\* The steps of send_message from the history append to the end of the state
\* update, for the message tm the transformation step produced from m; the
\* providers it invoked and the context it built are kept with the bus.
append_and_track(b, m, tm) ==
    Only({ LET transformed == sent # given
               b1 == [bus0 EXCEPT !.messages = Append(@, sent),
                                  !.next_id = IF sent.id = bus0.next_id THEN @ + 1 ELSE @,
                                  !.stats.transformations = IF transformed THEN @ + 1 ELSE @,
                                  !.stats.total_messages = @ + 1,
                                  !.provider_calls = IF transformed THEN invoked_providers(bus0) ELSE <<>>,
                                  !.enriched_context = IF transformed THEN centralized_context(bus0, given) ELSE <<>>]
               b2 == add_to_conversation(b1, sent)
           IN IF get_registered_agent_role(b2, sent.sender) # ""
              THEN manage_conversation_turn(b2, sent)
              ELSE b2 :
           bus0 \in {b}, given \in {m}, sent \in {tm} })

\* The steps of send_message after the handoff check.
route_and_persist(b, tm) == persist_message(route_message(b, tm), tm)

\* What evaluate_handoff reads of the message it is given: everything but the
\* ids, which no rule looks at.
evaluated_message(tm) ==
    [ type |-> tm.type, sender |-> tm.sender, recipient |-> tm.recipient,
      content |-> tm.content, session_id |-> tm.session_id ]

RECURSIVE execute_handoff(_, _, _)

\* The send_message call _check_automatic_handoff makes for its handoff
\* message: the same pipeline as any send, on the bus as the caller left it.
send_handoff(b, hm) ==
    IF ~validate_message(hm) THEN b
    ELSE LET tm == IF b.auto_transform THEN apply_centralized_transformation(b, hm) ELSE hm
             b1 == append_and_track(b, hm, tm)
             b2 == IF b1.auto_handoff THEN execute_handoff(b1, tm, evaluate_handoff(tm)) ELSE b1
         IN route_and_persist(b2, tm)

\* _check_automatic_handoff that does not put auto_transform back.
execute_handoff_leaves_transform_off(b, tm, decision) ==
    LET b0 == [b EXCEPT !.handoff_decisions = @ \cup {<<evaluated_message(tm), decision>>}] IN
    IF decision = <<>> THEN b0
    ELSE LET hm == handoff_message(tm, decision[1], b.next_id)
             b1 == send_handoff([b0 EXCEPT !.auto_transform = FALSE, !.next_id = @ + 1], hm)
         IN [b1 EXCEPT !.stats.handoffs = @ + 1]

\* The body of _check_automatic_handoff once evaluate_handoff has returned
\* decision; the call and its result are kept in handoff_decisions.
execute_handoff(b, tm, decision) ==
    LET b0 == [b EXCEPT !.handoff_decisions = @ \cup {<<evaluated_message(tm), decision>>}] IN
    IF decision = <<>> THEN b0
    ELSE LET hm == handoff_message(tm, decision[1], b.next_id)
             b1 == send_handoff([b0 EXCEPT !.auto_transform = FALSE, !.next_id = @ + 1], hm)
         IN [b1 EXCEPT !.auto_transform = b.auto_transform, !.stats.handoffs = @ + 1]

\* _check_automatic_handoff with an evaluation that hands off only on the
\* first message of the history.
check_automatic_handoff_first_message_only(b, tm) ==
    execute_handoff(b, tm, IF Len(b.messages) > 1 THEN <<>> ELSE evaluate_handoff(tm))

\* _check_automatic_handoff
check_automatic_handoff(b, tm) == execute_handoff(b, tm, evaluate_handoff(tm))

\* The logging lines that open send_message: message.content[:200] raises
\* TypeError when the content is None.
log_input_raises(m) == m.content = NoneContent

\* The try block of send_message: the bus it leaves behind, with the value it
\* returns in ret, or with raised set when an exception leaves the block.
send_message_try(b, m0) ==
    LET m == [m0 EXCEPT !.id = b.next_id] IN
    IF log_input_raises(m) THEN [b EXCEPT !.raised = TRUE]
    ELSE IF ~validate_message(m) THEN [b EXCEPT !.ret = FALSE]
    ELSE LET b0 == [b EXCEPT !.next_id = @ + 1]
             tm == IF b0.auto_transform THEN apply_centralized_transformation(b0, m) ELSE m
             b1 == append_and_track(b0, m, tm)
             b2 == IF b1.auto_handoff THEN check_automatic_handoff(b1, tm) ELSE b1
         IN [route_and_persist(b2, tm) EXCEPT !.ret = TRUE]

\* The except clause of send_message: the error is counted and False returned.
send_message_except(b) == [b EXCEPT !.raised = FALSE, !.stats.errors = @ + 1, !.ret = FALSE]

\* send_message that appends to the history before it validates.
send_message_appends_first(b, m0) ==
    LET m == [m0 EXCEPT !.id = b.next_id] IN
    IF log_input_raises(m) THEN send_message_except(b)
    ELSE IF ~validate_message(m) THEN [b EXCEPT !.messages = Append(@, m), !.ret = FALSE]
    ELSE send_message_try(b, m0)

\* send_message
send_message(b, m0) ==
    Only({ IF tried.raised THEN send_message_except(tried) ELSE tried :
           tried \in {send_message_try(b, m0)} })

\* MessageBus.__init__
NewBus ==
    [ registered_agents |-> <<>>,
      messages          |-> <<>>,
      conversations     |-> <<>>,
      turn_state        |-> <<>>,
      message_queues    |-> <<>>,
      log               |-> <<>>,
      handoff_decisions |-> {},
      agent_context_providers |-> <<>>,
      context_providers |-> <<>>,
      provider_calls    |-> <<>>,
      enriched_context  |-> <<>>,
      auto_transform    |-> TRUE,
      auto_handoff      |-> TRUE,
      stats             |-> [total_messages |-> 0, transformations |-> 0, handoffs |-> 0, errors |-> 0],
      next_id           |-> 1,
      sends             |-> 0,
      queries           |-> 0,
      ret               |-> TRUE,
      raised            |-> FALSE ]

InitBus ==
    /\ bus = NewBus
    /\ send_ret = TRUE
    /\ send_raised = FALSE
    /\ recv_ret = <<>>

\* register_agent(agent_id, role, provider) with agent_id = f"agent_{role.value}",
\* as BaseAgent.register_with_messagebus calls it: the bus it leaves behind.
register_agent(b, role) ==
    LET agent_id == "agent_" \o role
        put(providers) == IF \E i \in 1..Len(providers) : providers[i] = agent_id
                          THEN providers ELSE Append(providers, agent_id)
    IN [b EXCEPT !.registered_agents = DictSet(@, agent_id, [role |-> role, active |-> TRUE]),
                 !.context_providers = put(@),
                 !.agent_context_providers = put(@)]

\* unregister_agent(agent_id) of a registered agent: it is marked inactive
\* and its provider leaves agent_context_providers.
unregister_agent(b, agent_id) ==
    [b EXCEPT !.registered_agents[agent_id].active = FALSE,
              !.agent_context_providers = SelectSeq(@, LAMBDA a : a # agent_id)]

\* agent.register_with_messagebus(bus)
RegisterAgent(role) ==
    /\ bus' = register_agent(bus, role)
    /\ UNCHANGED <<send_ret, send_raised, recv_ret>>

\* unregister_agent(agent_id)
UnregisterAgent(agent_id) ==
    /\ agent_id \in DOMAIN bus.registered_agents
    /\ bus' = unregister_agent(bus, agent_id)
    /\ UNCHANGED <<send_ret, send_raised, recv_ret>>

\* await send_message(m)
SendMessage(m) ==
    /\ bus.sends < MaxSends
    /\ \E sent \in {send_message(bus, m)} :
          /\ bus' = [sent EXCEPT !.sends = @ + 1]
          /\ send_ret' = sent.ret
          /\ send_raised' = sent.raised
    /\ UNCHANGED recv_ret

\* clear_session_data: the history without the session's messages and the
\* conversations without the threads made for the session.  A thread's
\* session_id is that of the message it was created for, its first.
clear_session_data(b, session_id) ==
    [b EXCEPT !.messages = SelectSeq(@, LAMBDA msg : msg.session_id # session_id),
              !.conversations = [conv_id \in {c \in DOMAIN @ : @[c][1].session_id # session_id} |-> @[conv_id]]]

\* await clear_session_data(session_id)
ClearSessionData(session_id) ==
    /\ bus' = clear_session_data(bus, session_id)
    /\ UNCHANGED <<send_ret, send_raised, recv_ret>>

\* await receive_message(recipient, timeout): the head of the queue, or None
\* when the timeout passes on an empty queue; the queue is created on demand.
ReceiveMessage(recipient) ==
    LET q == IF recipient \in DOMAIN bus.message_queues THEN bus.message_queues[recipient] ELSE <<>>
    IN /\ bus' = [bus EXCEPT !.message_queues = DictSet(@, recipient, IF q = <<>> THEN <<>> ELSE Tail(q))]
       /\ recv_ret' = IF q = <<>> THEN <<>> ELSE <<Head(q)>>
       /\ UNCHANGED <<send_ret, send_raised>>

\* Message.timestamp: datetime.now() when the Message is constructed.  The
\* messages of a history are constructed in the order of their sequence
\* numbers, so the number stands for the time.
timestamp(msg) == msg.id

\* messages.sort(key=lambda x: x.timestamp, reverse=True): newest first;
\* the sort is stable, equal timestamps keep their order.
RECURSIVE sort_newest_first(_)
sort_newest_first(messages) ==
    IF messages = <<>> THEN <<>>
    ELSE LET i == CHOOSE i \in DOMAIN messages :
                     /\ \A j \in DOMAIN messages : timestamp(messages[j]) <= timestamp(messages[i])
                     /\ \A j \in 1..(i - 1) : timestamp(messages[j]) < timestamp(messages[i])
         IN <<messages[i]>> \o sort_newest_first(SubSeq(messages, 1, i - 1)
                                                  \o SubSeq(messages, i + 1, Len(messages)))

\* get_recent_messages(count, session_id), the list it returns; session_id
\* "" is None.  With a session the list sorted is a new, filtered list;
\* without one it is self.messages itself.
get_recent_messages(b, count, session_id) ==
    Only({ SubSeq(sorted, 1, IF Len(sorted) < count THEN Len(sorted) ELSE count) :
           sorted \in {sort_newest_first(IF session_id # ""
                                          THEN SelectSeq(b.messages, LAMBDA msg : msg.session_id = session_id)
                                          ELSE b.messages)} })

\* get_recent_messages(count, session_id), the bus it leaves behind: without
\* a session filter messages is the list self.messages, and list.sort sorts
\* it in place.
after_get_recent_messages(b, session_id) ==
    IF session_id # "" THEN b
    ELSE [b EXCEPT !.messages = sort_newest_first(@)]

\* await get_recent_messages(count, session_id)
GetRecentMessages(count, session_id) ==
    /\ bus.queries < MaxQueries
    /\ bus' = [after_get_recent_messages(bus, session_id) EXCEPT !.queries = @ + 1]
    /\ UNCHANGED <<send_ret, send_raised, recv_ret>>

\* await get_message_count(session_id): len() of the history or of a
\* filtered copy of it.
GetMessageCount(session_id) ==
    /\ bus.queries < MaxQueries
    /\ bus' = [bus EXCEPT !.queries = @ + 1]
    /\ UNCHANGED <<send_ret, send_raised, recv_ret>>

\* await get_conversation(conversation_id): self.conversations.get(conversation_id)
GetConversation(conversation_id) ==
    /\ bus.queries < MaxQueries
    /\ bus' = [bus EXCEPT !.queries = @ + 1]
    /\ UNCHANGED <<send_ret, send_raised, recv_ret>>

\* await get_statistics(): a new dict of the counters and two lengths.
GetStatistics ==
    /\ bus.queries < MaxQueries
    /\ bus' = [bus EXCEPT !.queries = @ + 1]
    /\ UNCHANGED <<send_ret, send_raised, recv_ret>>

(***************************************************************************)
(* backend/terminal_manager.py                                             *)
(***************************************************************************)

ProcessStatus == {"starting", "ready", "active", "waiting", "error", "stopped", "crashed"}

\* The process ids start_terminal generates.
TerminalIds == {"claude_cli_1"}

\* How many send_message calls the callers of one process make.
MaxMessages == 2

\* How many lines one CLI process prints.
MaxLines == 3

\* del d[k] on a Python dict held as a function.
DictDel(d, k) == [x \in DOMAIN d \ {k} |-> d[x]]

\* A line the process prints; after is the number of texts that had been
\* written to its stdin when it printed the line.
Line(after) == [after |-> after]

\* How the call of method call for process id ended: the value it returned
\* (<<>> is None), or raised; repeated tells that the call before it was the
\* same call for the same id.
Returned(call, id, value) ==
    [ call |-> call, id |-> id, value |-> value, raised |-> FALSE,
      repeated |-> (term_ret.call = call /\ term_ret.id = id) ]

Raised(call, id) ==
    [ call |-> call, id |-> id, value |-> <<>>, raised |-> TRUE,
      repeated |-> (term_ret.call = call /\ term_ret.id = id) ]

\* TerminalManager.__init__
InitTerm ==
    /\ terminal_manager = [processes |-> <<>>, message_queues |-> <<>>,
                           response_queues |-> <<>>, communication_tasks |-> <<>>]
    /\ os_process = <<>>
    /\ start_call = {}
    /\ send_call = <<>>
    /\ term_ret = [call |-> "__init__", id |-> "", value |-> <<>>, raised |-> FALSE, repeated |-> FALSE]

\* TerminalConfig(..., auto_restart=auto_restart)
TerminalConfig(auto_restart) == [auto_restart |-> auto_restart]

\* default_configs[terminal_type]: auto_restart keeps its default, True.
default_config == TerminalConfig(TRUE)

\* CLIProcess(id, config, process, status=STARTING)
CLIProcess(config) ==
    [ status |-> "starting", message_count |-> 0, error_count |-> 0,
      restart_count |-> 0, config |-> config ]

\* start_terminal(terminal_type, custom_config) up to its asyncio.sleep(2):
\* the process is spawned and registered with its two queues and its
\* communication task; when Popen raises, nothing is registered and the
\* exception goes to the caller.
StartTerminalConfig(id, spawned, custom_config) ==
    /\ id \notin DOMAIN terminal_manager.processes
    /\ IF spawned
       THEN /\ terminal_manager' =
                   [terminal_manager EXCEPT
                       !.processes = DictSet(@, id, CLIProcess(IF custom_config = <<>> THEN default_config ELSE custom_config[1])),
                       !.message_queues = DictSet(@, id, <<>>),
                       !.response_queues = DictSet(@, id, <<>>),
                       !.communication_tasks = DictSet(@, id, "running")]
            /\ os_process' = DictSet(os_process, id, [alive |-> TRUE, stdin_written |-> 0, stdout |-> <<>>, printed |-> 0])
            /\ start_call' = start_call \cup {id}
            /\ UNCHANGED term_ret
       ELSE /\ term_ret' = Raised("start_terminal", id)
            /\ UNCHANGED <<terminal_manager, os_process, start_call>>
    /\ UNCHANGED send_call

\* start_terminal(terminal_type)
StartTerminal(id, spawned) == StartTerminalConfig(id, spawned, <<>>)

\* start_terminal after its sleep: the status becomes READY and the id is returned.
StartTerminalReady(id) ==
    /\ id \in start_call
    /\ start_call' = start_call \ {id}
    /\ terminal_manager' = [terminal_manager EXCEPT !.processes[id].status = "ready"]
    /\ term_ret' = Returned("start_terminal", id, <<>>)
    /\ UNCHANGED <<os_process, send_call>>

\* send_message up to its wait on the response queue; an unknown id raises ValueError.
SendBegin(id) ==
    /\ send_call = <<>>
    /\ IF id \notin DOMAIN terminal_manager.processes
       THEN /\ term_ret' = Raised("send_message", id)
            /\ UNCHANGED <<terminal_manager, send_call>>
       ELSE /\ terminal_manager.processes[id].message_count < MaxMessages
            /\ terminal_manager' =
                   [terminal_manager EXCEPT
                       !.processes[id].message_count = @ + 1,
                       !.processes[id].status = "active",
                       !.message_queues[id] = Append(@, terminal_manager.processes[id].message_count + 1)]
            /\ send_call' = <<id>>
            /\ term_ret' = Returned("send_message", id, <<>>)
    /\ UNCHANGED <<os_process, start_call>>

\* send_message takes the first item of the response queue and returns it.
SendComplete(id) ==
    /\ send_call = <<id>>
    /\ terminal_manager.response_queues[id] # <<>>
    /\ terminal_manager' =
           [terminal_manager EXCEPT
               !.response_queues[id] = Tail(@),
               !.processes[id].status = "ready"]
    /\ term_ret' = Returned("send_message", id, <<Head(terminal_manager.response_queues[id])>>)
    /\ send_call' = <<>>
    /\ UNCHANGED <<os_process, start_call>>

\* send_message when config.timeout passes on an empty response queue.
SendTimeout(id) ==
    /\ send_call = <<id>>
    /\ terminal_manager.response_queues[id] = <<>>
    /\ terminal_manager' =
           [terminal_manager EXCEPT
               !.processes[id].error_count = @ + 1,
               !.processes[id].status = "error"]
    /\ term_ret' = Raised("send_message", id)
    /\ send_call' = <<>>
    /\ UNCHANGED <<os_process, start_call>>

\* id has a communication task that is still running.
task_running(id) ==
    /\ id \in DOMAIN terminal_manager.communication_tasks
    /\ terminal_manager.communication_tasks[id] = "running"

\* One turn of _write_process_input: the next text goes to the stdin of the
\* process; on a dead process the write raises, the status becomes ERROR and
\* _handle_process_communication ends with the writer.
WriteProcessInput(id) ==
    /\ task_running(id)
    /\ terminal_manager.message_queues[id] # <<>>
    /\ IF os_process[id].alive
       THEN /\ os_process' = [os_process EXCEPT ![id].stdin_written = @ + 1]
            /\ terminal_manager' = [terminal_manager EXCEPT !.message_queues[id] = Tail(@)]
       ELSE /\ terminal_manager' =
                   [terminal_manager EXCEPT
                       !.message_queues[id] = Tail(@),
                       !.processes[id].status = "error",
                       !.communication_tasks[id] = "done"]
            /\ UNCHANGED os_process
    /\ UNCHANGED <<start_call, send_call, term_ret>>

\* The CLI process prints a line: a reply, part of a reply, or output nobody asked for.
ProcessPrints(id) ==
    /\ id \in DOMAIN os_process
    /\ os_process[id].alive
    /\ os_process[id].printed < MaxLines
    /\ os_process' = [os_process EXCEPT ![id].stdout = Append(@, Line(os_process[id].stdin_written)),
                                        ![id].printed = @ + 1]
    /\ UNCHANGED <<terminal_manager, start_call, send_call, term_ret>>

\* The CLI process ends by itself.
ProcessExits(id) ==
    /\ id \in DOMAIN os_process
    /\ os_process[id].alive
    /\ os_process' = [os_process EXCEPT ![id].alive = FALSE]
    /\ UNCHANGED <<terminal_manager, start_call, send_call, term_ret>>

\* One turn of _read_process_output: a line read from stdout goes on the
\* response queue as an item of its own; at end of file the reader returns
\* and _handle_process_communication ends with it.
ReadProcessOutput(id) ==
    /\ task_running(id)
    /\ IF os_process[id].stdout # <<>>
       THEN /\ terminal_manager' = [terminal_manager EXCEPT !.response_queues[id] = Append(@, Head(os_process[id].stdout))]
            /\ os_process' = [os_process EXCEPT ![id].stdout = Tail(@)]
       ELSE /\ ~os_process[id].alive
            /\ terminal_manager' = [terminal_manager EXCEPT !.communication_tasks[id] = "done"]
            /\ UNCHANGED os_process
    /\ UNCHANGED <<start_call, send_call, term_ret>>

\* stop_terminal that reports an error when the process is already stopped.
stop_terminal_once_only(tm, id) ==
    IF id \notin DOMAIN tm.processes THEN tm
    ELSE IF tm.processes[id].status = "stopped"
    THEN [tm EXCEPT !.processes[id].status = "error", !.processes[id].error_count = @ + 1]
    ELSE [tm EXCEPT !.communication_tasks = DictDel(@, id), !.processes[id].status = "stopped"]

\* stop_terminal, the TerminalManager it leaves behind: nothing for an unknown
\* id; otherwise the communication task is cancelled and forgotten and the
\* status becomes STOPPED.
stop_terminal(tm, id) ==
    IF id \notin DOMAIN tm.processes THEN tm
    ELSE [tm EXCEPT !.communication_tasks = DictDel(@, id), !.processes[id].status = "stopped"]

\* process.terminate(), wait(timeout=5), kill(): the process is gone.
terminate(os, id) ==
    IF id \notin DOMAIN os THEN os ELSE [os EXCEPT ![id].alive = FALSE]

\* await stop_terminal(id); its try block lets no exception out.
StopTerminal(id) ==
    /\ terminal_manager' = stop_terminal(terminal_manager, id)
    /\ os_process' = terminate(os_process, id)
    /\ term_ret' = Returned("stop_terminal", id, <<>>)
    /\ UNCHANGED <<start_call, send_call>>

(***************************************************************************)
(* backend/process_communicator.py                                         *)
(***************************************************************************)

\* The clock unit: a tick is 0.05 s, half the timeout of one readline.
TicksPerSecond == 20

\* asyncio.wait_for(process.stdout.readline(), timeout=0.1)
ReadlineTimeout == TicksPerSecond \div 10

\* The configuration of the call: silent_period = 2 s, max_timeout = 5 s.
silent_period == 2 * TicksPerSecond

max_timeout == 5 * TicksPerSecond

\* The rhythms of a process that never falls silent: a line every 0.05 s,
\* every 0.1 s, every 0.2 s, every second.
LineGaps == {1, ReadlineTimeout, 4, TicksPerSecond}

\* What the process prints: lines of text, or lines of white space only.
LineKinds == {"text", "blank"}

\* How long after max_timeout the clock is followed.
RecvSlack == 10

\* No receive is running.
InitRecv ==
    /\ now = 0
    /\ receiver = [pc |-> "idle", wait_started |-> 0, last_output_time |-> 0,
                   start_time |-> 0, output_lines |-> 0, returned_at |-> 0]
    /\ producer = [gap |-> 0, kind |-> "text", next_line_at |-> 0, pending |-> 0]

\* The call begins: last_output_time = start_time = now, against a process
\* that prints a line of the given kind every gap ticks.
ReceiveBegins(gap, kind) ==
    /\ receiver.pc = "idle"
    /\ receiver' = [receiver EXCEPT !.pc = "readline", !.wait_started = now,
                                    !.last_output_time = now, !.start_time = now]
    /\ producer' = [gap |-> gap, kind |-> kind, next_line_at |-> now + gap, pending |-> 0]
    /\ UNCHANGED now

\* The process prints its next line into the pipe.
ProducerPrints ==
    /\ receiver.pc # "idle"
    /\ producer.next_line_at = now
    /\ producer' = [producer EXCEPT !.next_line_at = now + producer.gap, !.pending = @ + 1]
    /\ UNCHANGED <<now, receiver>>

\* readline() returns a line: a line with text is kept and moves
\* last_output_time, a blank one is dropped; the loop starts the next readline.
ReadlineReturns ==
    /\ receiver.pc = "readline"
    /\ producer.pending > 0
    /\ producer' = [producer EXCEPT !.pending = @ - 1]
    /\ receiver' = IF producer.kind = "text"
                   THEN [receiver EXCEPT !.output_lines = @ + 1, !.last_output_time = now, !.wait_started = now]
                   ELSE [receiver EXCEPT !.wait_started = now]
    /\ UNCHANGED now

\* wait_for raises TimeoutError after 0.1 s without a line: the only place
\* where the silent period and max_timeout are tested.
ReadlineTimesOut ==
    /\ receiver.pc = "readline"
    /\ producer.pending = 0
    /\ now - receiver.wait_started >= ReadlineTimeout
    /\ receiver' = IF now - receiver.last_output_time >= silent_period
                        \/ now - receiver.start_time >= max_timeout
                   THEN [receiver EXCEPT !.pc = "returned", !.returned_at = now]
                   ELSE [receiver EXCEPT !.wait_started = now]
    /\ UNCHANGED <<now, producer>>

\* Time passes when nothing is due: no line to print or to read, no readline
\* timeout to raise.
RecvTick ==
    /\ receiver.pc # "idle"
    /\ now < max_timeout + RecvSlack
    /\ producer.next_line_at > now
    /\ receiver.pc = "readline" => /\ producer.pending = 0
                                   /\ now - receiver.wait_started < ReadlineTimeout
    /\ now' = now + 1
    /\ UNCHANGED <<receiver, producer>>

\* A MessageProtocol registered with register_protocol: timeout_seconds = 2 s
\* and a buffer of three characters.
timeout_seconds == 2 * TicksPerSecond

max_buffer_size == 3

\* protocol.end_marker
end_marker == "<END>"

\* The response patterns whose receive loop reads line by line under one
\* wait_for: TIMEOUT and END_MARKER.
LinePatterns == {"timeout", "end_marker"}

\* The timeout of one wait_for(process.stdout.readline(), ...): the whole
\* timeout in _receive_with_timeout, 1.0 s in _receive_with_end_marker.
readline_timeout(pattern) ==
    IF pattern = "timeout" THEN timeout_seconds ELSE TicksPerSecond

\* The lines the process prints, as the words of the line: text, text that
\* ends in the marker, the marker alone.
PrintedLines == { <<"x">>, <<"x", end_marker>>, <<end_marker>> }

\* The pauses of the process before its next line: 0.2 s, 1.5 s.
PrintGaps == {4, 30}

\* end_marker in line_str
contains_marker(line_str) == \E i \in DOMAIN line_str : line_str[i] = end_marker

\* line_str.replace(end_marker, "").strip()
remove_marker(line_str) == SelectSeq(line_str, LAMBDA word : word # end_marker)

\* len(line_str): a word of text is one character.
RECURSIVE line_len(_)
line_len(line_str) ==
    IF line_str = <<>> THEN 0
    ELSE (IF Head(line_str) = end_marker THEN 5 ELSE 1) + line_len(Tail(line_str))

\* len("\n".join(output_lines))
RECURSIVE joined_len(_)
joined_len(output_lines) ==
    IF output_lines = <<>> THEN 0
    ELSE line_len(Head(output_lines)) + (IF Tail(output_lines) = <<>> THEN 0 ELSE 1)
            + joined_len(Tail(output_lines))

\* send_and_receive up to the first readline of _receive_response, for a
\* protocol of the given pattern: the message is written and the receive
\* loop begins with no output; the process prints its first line after gap.
\* On a process that has exited, stdin.drain() raises ConnectionResetError
\* and the call ends with it.
SendAndReceiveBegins(pattern, gap, alive) ==
    /\ receiver.pc = "idle"
    /\ receiver' = [pc |-> IF alive THEN "wait_for" ELSE "returned",
                    pattern |-> pattern, wait_started |-> now, start_time |-> now,
                    output_lines |-> <<>>, returned_at |-> 0,
                    ended_by |-> IF alive THEN "" ELSE "drain", raised |-> ~alive]
    /\ producer' = [next_line_at |-> now + gap, stdout |-> <<>>, emitted |-> <<>>, eof |-> ~alive]
    /\ UNCHANGED now

\* The process has something to do now: its next line is due.
line_due ==
    /\ receiver.pc # "idle"
    /\ ~producer.eof
    /\ Len(producer.emitted) < MaxLines
    /\ producer.next_line_at = now

\* The process prints a line and pauses for gap.
ProcessPrintsLine(line, gap) ==
    /\ line_due
    /\ producer' = [producer EXCEPT !.stdout = Append(@, line), !.emitted = Append(@, line),
                                    !.next_line_at = now + gap]
    /\ UNCHANGED <<now, receiver>>

\* The process ends instead of printing: its stdout is at end of file.
ProcessClosesStdout ==
    /\ line_due
    /\ producer' = [producer EXCEPT !.eof = TRUE]
    /\ UNCHANGED <<now, receiver>>

\* The receive loop returns "\n".join(output_lines) through the branch named.
receive_returns(r, branch) ==
    [r EXCEPT !.pc = "returned", !.returned_at = now, !.ended_by = branch]

\* readline() returns a line.  _receive_with_timeout keeps it and reads on.
\* _receive_with_end_marker returns at a line that holds the marker, keeping
\* what is left of the line when that is not empty; after any other line it
\* tests the total duration.
LineRead ==
    /\ receiver.pc = "wait_for"
    /\ producer.stdout # <<>>
    /\ producer' = [producer EXCEPT !.stdout = Tail(@)]
    /\ \E line_str \in {Head(producer.stdout)} :
          receiver' =
             IF receiver.pattern = "timeout"
             THEN [receiver EXCEPT !.output_lines = Append(@, line_str), !.wait_started = now]
             ELSE IF contains_marker(line_str)
             THEN receive_returns([receiver EXCEPT !.output_lines =
                                      IF remove_marker(line_str) # <<>> THEN Append(@, remove_marker(line_str)) ELSE @],
                                  "marker")
             ELSE IF now - receiver.start_time >= timeout_seconds
             THEN receive_returns([receiver EXCEPT !.output_lines = Append(@, line_str)], "timeout")
             ELSE [receiver EXCEPT !.output_lines = Append(@, line_str), !.wait_started = now]
    /\ UNCHANGED now

\* readline() returns b"" at end of file: the loop is left.
EndOfFileRead ==
    /\ receiver.pc = "wait_for"
    /\ producer.stdout = <<>>
    /\ producer.eof
    /\ receiver' = receive_returns(receiver, "eof")
    /\ UNCHANGED <<now, producer>>

\* wait_for raises TimeoutError: the except clause around the loop passes and
\* the lines read so far are returned.
WaitForTimesOut ==
    /\ receiver.pc = "wait_for"
    /\ producer.stdout = <<>>
    /\ now - receiver.wait_started >= readline_timeout(receiver.pattern)
    /\ receiver' = receive_returns(receiver, "wait_for")
    /\ UNCHANGED <<now, producer>>

\* Time passes while the receive waits and nothing is due.
LineTick ==
    /\ receiver.pc = "wait_for"
    /\ now < timeout_seconds + RecvSlack
    /\ ~line_due
    /\ producer.stdout = <<>> /\ ~producer.eof
    /\ now - receiver.wait_started < readline_timeout(receiver.pattern)
    /\ now' = now + 1
    /\ UNCHANGED <<receiver, producer>>

(***************************************************************************)
(* backend/orchestrator.py, backend/agents.py                              *)
(***************************************************************************)

OrchestrationState == {"idle", "initializing", "running", "paused", "completed", "failed", "stopped"}

AgentStatus == {"idle", "initializing", "active", "thinking", "working", "ready", "completed", "paused", "error", "stopped"}

\* config.max_iterations of the OrchestrationConfig the orchestrator is built with.
OrchMaxIterations == 2

\* How many sessions start_orchestration creates.
MaxSessions == 1

\* How many _orchestration_loop tasks are alive at once.
MaxLoopTasks == 2

\* The uuid of the n-th session.
SessionId(n) == IF n = 1 THEN "s1" ELSE IF n = 2 THEN "s2" ELSE "s3"

\* The positions of an _orchestration_loop task: at the while test, or in the
\* body of an iteration for the workflow phase it found.
LoopPositions == {"top"} \cup WorkflowPhase

\* The bodies the orchestrator sends.
PlanFrontend == Content("Create a detailed frontend implementation plan for: ", 68, {"implement"})

PlanBackend == Content("Create a detailed backend implementation plan for: ", 100, {"implement"})

Coordinate == Content("Coordinate your plans.", 90, {})

Implement == Content("Implement your solution. Report progress and any blockers.", 67, {"implement"})

FrontendUpdate == Content("Frontend update: ", 17, {})

BackendUpdate == Content("Backend update: ", 16, {})

ReviewSolution == Content("Review the complete solution.", 99, {"review", "complete", "check", "issue"})

\* f"Error processing message: {e}", the body of the Message process_message
\* returns from its except branch.
ErrorReply == Content("Error processing message: ", 100, {"error"})

\* An f-string that quotes the body of another message.
Quote(body, quoted) ==
    Content(body.text \o quoted.text, body.len + quoted.len, body.words \cup quoted.words)

\* OrchestrationConfig(max_iterations=n)
OrchestrationConfig(n) == [max_iterations |-> n]

\* self.config of the orchestrator: config or OrchestrationConfig() of __init__.
self_config == OrchestrationConfig(OrchMaxIterations)

\* The config argument of start_orchestration: None, or a configuration of
\* the caller's.
Configs == {<<>>} \cup {<<OrchestrationConfig(n)>> : n \in 1..OrchMaxIterations}

\* OrchestrationSession(...) as start_orchestration creates it, with
\* session_config = config or self.config.
NewSession(id, config) ==
    [ id |-> id, state |-> "initializing", current_iteration |-> 0,
      config |-> IF config = <<>> THEN self_config ELSE config[1],
      agents_status |-> [agent_a |-> "idle", agent_b |-> "idle"],
      error_message |-> FALSE ]

\* The orchestrator and what it owns, as its methods see it.
Orchestrator ==
    [ session |-> session, agents |-> agents, workflow |-> current_workflow,
      metrics |-> metrics, message_bus |-> bus, session_file |-> session_file ]

\* str(status) of json.dump(..., default=str): an AgentStatus member is
\* written as "AgentStatus.NAME"; what was loaded from a file is that string
\* already.
status_str(status) ==
    CASE status = "idle" -> "AgentStatus.IDLE"
      [] status = "initializing" -> "AgentStatus.INITIALIZING"
      [] status = "active" -> "AgentStatus.ACTIVE"
      [] status = "thinking" -> "AgentStatus.THINKING"
      [] status = "working" -> "AgentStatus.WORKING"
      [] status = "ready" -> "AgentStatus.READY"
      [] status = "completed" -> "AgentStatus.COMPLETED"
      [] status = "paused" -> "AgentStatus.PAUSED"
      [] status = "error" -> "AgentStatus.ERROR"
      [] status = "stopped" -> "AgentStatus.STOPPED"
      [] OTHER -> status

\* The JSON object _save_session writes for a session: the state by its
\* value, the agent statuses through str().
session_data(s) ==
    [s EXCEPT !.agents_status = [a \in DOMAIN @ |-> status_str(@[a])]]

\* _save_session: the session goes to sessions/session_{id}.json.
save_session(o) ==
    [o EXCEPT !.session_file = DictSet(@, o.session[1].id, session_data(o.session[1]))]

\* load_session: the OrchestrationSession rebuilt from the file; the agent
\* statuses stay the strings the file holds.
load_session(o, id) ==
    [o EXCEPT !.session = <<o.session_file[id]>>]

\* BaseAgent.process_message: _prepare_message_for_cli, which it calls, is
\* defined by no class, so every call leaves through the except branch: the
\* agent's status becomes ERROR and an ERROR message is returned.
process_message(o, agent) == [o EXCEPT !.agents[agent] = "error"]

\* message_bus.send_message(Message(type, sender, recipient, content, session.id))
orch_send(o, type, sender, recipient, content) ==
    [o EXCEPT !.message_bus = send_message(@, Msg(type, sender, recipient, content, o.session[1].id))]

\* workflow_engine.advance_phase(next_phase)
orch_advance_phase(o, next_phase) ==
    IF o.workflow = <<>> THEN o
    ELSE [o EXCEPT !.workflow = <<advance_phase(@[1], next_phase)>>,
                   !.metrics.workflows_completed =
                        IF advance_completes(o.workflow[1], next_phase) THEN @ + 1 ELSE @]

\* _planning_phase
planning_phase(o) ==
    Only({ orch_advance_phase(o3, "implementation") :
           o3 \in { orch_send(o2, "coordination", "orchestrator", "both", Quote(Quote(Coordinate, ErrorReply), ErrorReply)) :
           o2 \in { process_message(orch_send(o1, "task", "orchestrator", "agent_b", Quote(PlanBackend, ErrorReply)), "agent_b") :
           o1 \in { process_message(orch_send(o, "task", "orchestrator", "agent_a", PlanFrontend), "agent_a") } } } })

\* _facilitate_cross_communication; get_latest_output gives "" while no
\* process_message call has stored an output.
facilitate_cross_communication(o) ==
    Only({ process_message(orch_send(o1, "cross_communication", "agent_b", "agent_a", BackendUpdate), "agent_a") :
           o1 \in { process_message(orch_send(o, "cross_communication", "agent_a", "agent_b", FrontendUpdate), "agent_b") } })

\* _check_implementation_completion
check_implementation_completion(o) ==
    /\ o.agents["agent_a"] \in {"completed", "ready"}
    /\ o.agents["agent_b"] \in {"completed", "ready"}

\* _implementation_phase: the two _agent_implementation_cycle tasks send one
\* after the other and then wait for their agents.
implementation_phase(o) ==
    Only({ IF check_implementation_completion(o4) THEN orch_advance_phase(o4, "review") ELSE o4 :
           o4 \in { facilitate_cross_communication(process_message(process_message(o2, "agent_a"), "agent_b")) :
           o2 \in { orch_send(o1, "implementation", "orchestrator", "agent_b", Implement) :
           o1 \in { orch_send(o, "implementation", "orchestrator", "agent_a", Implement) } } } })

\* _analyze_reviews on two reviews with the given bodies.
analyze_reviews(review_a, review_b) ==
    /\ {"complete", "finished", "done", "ready", "success"} \cap review_a.words # {}
    /\ {"complete", "finished", "done", "ready", "success"} \cap review_b.words # {}
    /\ {"issue", "problem", "bug", "error", "fix"} \cap (review_a.words \cup review_b.words) = {}

\* _review_phase
review_phase(o) ==
    Only({ IF analyze_reviews(ErrorReply, ErrorReply)
           THEN orch_advance_phase(o2, "completed")
           ELSE orch_advance_phase(o2, "implementation") :
           o2 \in { process_message(process_message(o1, "agent_a"), "agent_b") :
           o1 \in { orch_send(o, "review", "orchestrator", "both", ReviewSolution) } } })

\* _complete_orchestration, with the cleanup() of both agents.
complete_orchestration(o) ==
    [o EXCEPT !.session[1].state = "completed",
              !.session[1].agents_status = [agent_a |-> "completed", agent_b |-> "completed"],
              !.agents = [agent_a |-> "completed", agent_b |-> "completed"]]

\* _check_completion_criteria; has_files: the workspace directory holds an entry.
check_completion_criteria(o, has_files) ==
    /\ has_files
    /\ \/ /\ o.session[1].agents_status["agent_a"] = "completed"
          /\ o.session[1].agents_status["agent_b"] = "completed"
       \/ o.workflow # <<>> /\ o.workflow[1].state = "completed"

\* _detect_conflicts, what it returns: an agent in error, or a conflict
\* keyword in one of the ten most recent messages.
detect_conflicts(o) ==
    \/ o.agents["agent_a"] = "error" \/ o.agents["agent_b"] = "error"
    \/ \E recent_messages \in {get_recent_messages(o.message_bus, 10, "")} :
          \E i \in DOMAIN recent_messages :
             {"error", "conflict", "blocked", "failed", "cannot"}
                 \cap recent_messages[i].content.words # {}

\* _detect_conflicts, the orchestrator it leaves behind: with no agent in
\* error it has called message_bus.get_recent_messages(10).
after_detect_conflicts(o) ==
    IF o.agents["agent_a"] = "error" \/ o.agents["agent_b"] = "error" THEN o
    ELSE [o EXCEPT !.message_bus = after_get_recent_messages(@, "")]

\* _resolve_conflicts under conflict_resolution = "agent_a_priority"
resolve_conflicts(o) ==
    [process_message(o, "agent_b") EXCEPT
        !.session[1].agents_status = [agent_a |-> "active", agent_b |-> "active"]]

\* _initialize_agents: the orchestrator it leaves behind, and whether it
\* raised.  env_ok: both API keys are set; a_ok, b_ok: initialize() of the
\* agent returned True.
initialize_agents(o, env_ok, a_ok, b_ok) ==
    LET both_error(x) == [x EXCEPT !.session[1].agents_status = [agent_a |-> "error", agent_b |-> "error"]]
        a_done == [o EXCEPT !.agents["agent_a"] = IF a_ok THEN "active" ELSE "error"]
        a_reg  == [a_done EXCEPT !.message_bus = register_agent(@, "frontend"),
                                 !.session[1].agents_status["agent_a"] = "active"]
        b_done == [a_reg EXCEPT !.agents["agent_b"] = IF b_ok THEN "active" ELSE "error"]
        b_reg  == [b_done EXCEPT !.message_bus = register_agent(@, "backend"),
                                 !.session[1].agents_status["agent_b"] = "active"]
    IN IF ~env_ok THEN [o |-> both_error(o), raised |-> TRUE]
       ELSE IF ~a_ok THEN [o |-> both_error(a_done), raised |-> TRUE]
       ELSE IF ~b_ok THEN [o |-> both_error(b_done), raised |-> TRUE]
       ELSE [o |-> b_reg, raised |-> FALSE]

\* start_orchestration(objective, config) up to the creation of the loop
\* task: the orchestrator it leaves behind, and whether it raised.
start_orchestration(o, id, config, env_ok, a_ok, b_ok) ==
    LET o0   == save_session([o EXCEPT !.session = <<NewSession(id, config)>>])
        init == initialize_agents(o0, env_ok, a_ok, b_ok)
        o1   == [init.o EXCEPT !.workflow = <<NewTemplateWorkflow("make a cli tool")>>,
                               !.metrics.workflows_started = @ + 1,
                               !.session[1].state = "running"]
    IN IF init.raised
       THEN [o |-> save_session([init.o EXCEPT !.session[1].state = "failed", !.session[1].error_message = TRUE]),
             raised |-> TRUE]
       ELSE [o |-> save_session(o1), raised |-> FALSE]

\* BaseAgent.pause, resume and stop: the status they leave.
agent_pause(status) == "paused"

agent_resume(status) == IF status = "paused" THEN "active" ELSE status

agent_stop(status) == "stopped"

\* pause_orchestration past its guard
pause_orchestration(o) ==
    save_session([o EXCEPT !.session[1].state = "paused",
                           !.agents = [a \in DOMAIN @ |-> agent_pause(@[a])]])

\* resume_orchestration past its guard, up to the creation of the loop task
resume_orchestration(o) ==
    save_session([o EXCEPT !.session[1].state = "running",
                           !.agents = [a \in DOMAIN @ |-> agent_resume(@[a])]])

\* stop_orchestration: the orchestrator it leaves behind; nothing without a session.
stop_orchestration(o) ==
    IF o.session = <<>> THEN o
    ELSE save_session([o EXCEPT !.session[1].state = "stopped",
                                !.agents = [a \in DOMAIN @ |-> agent_stop(@[a])],
                                !.workflow = IF @ = <<>> THEN @ ELSE <<workflow_stop(@[1])>>])

\* The end of _orchestration_loop, after the while loop: the test for the
\* maximum and the _save_session of the finally clause.
loop_exit(o) ==
    save_session(IF o.session[1].current_iteration >= self_config.max_iterations
                 THEN [o EXCEPT !.session[1].state = "completed", !.session[1].error_message = TRUE]
                 ELSE o)

\* The body of one iteration for the phase the loop dispatched on.
phase_body(o, phase) ==
    CASE phase = "planning" -> planning_phase(o)
      [] phase = "implementation" -> implementation_phase(o)
      [] phase = "review" -> review_phase(o)
      [] OTHER -> o

\* The orchestrator's fields go back into the variables.
Store(o) ==
    /\ session' = o.session
    /\ agents' = o.agents
    /\ current_workflow' = o.workflow
    /\ metrics' = o.metrics
    /\ bus' = o.message_bus
    /\ session_file' = o.session_file

\* A loop task moves from one position to another; "" is no position.
MoveTask(from, to) ==
    loop_tasks' = [p \in LoopPositions |->
                      loop_tasks[p] + (IF p = to THEN 1 ELSE 0) - (IF p = from THEN 1 ELSE 0)]

\* The number of live loop tasks at the positions of ps.
RECURSIVE CountTasks(_)
CountTasks(ps) ==
    IF ps = {} THEN 0
    ELSE LET p == CHOOSE q \in ps : TRUE IN loop_tasks[p] + CountTasks(ps \ {p})

\* How the call of method call ended; repeated tells that the call before it
\* was the same call.
OrchReturned(call, value, raised) ==
    [call |-> call, value |-> value, raised |-> raised, repeated |-> (orch_ret.call = call)]

\* AgentOrchestrator.__init__
InitOrch ==
    /\ session = <<>>
    /\ agents = [agent_a |-> "idle", agent_b |-> "idle"]
    /\ loop_tasks = [p \in LoopPositions |-> 0]
    /\ session_file = <<>>
    /\ orch_ret = [call |-> "__init__", value |-> "", raised |-> FALSE, repeated |-> FALSE]

\* What the orchestrator's methods leave alone outside the orchestrator itself.
OrchFrame == UNCHANGED <<wf_ret, blockers, send_ret, send_raised, recv_ret>>

\* start_orchestration(objective, config)
StartOrchestration(config, env_ok, a_ok, b_ok) ==
    /\ Cardinality(DOMAIN session_file) < MaxSessions
    /\ metrics.workflows_started < MaxStarts
    /\ CountTasks(LoopPositions) < MaxLoopTasks
    /\ LET id == SessionId(Cardinality(DOMAIN session_file) + 1)
           r  == start_orchestration(Orchestrator, id, config, env_ok, a_ok, b_ok)
       IN /\ Store(r.o)
          /\ IF r.raised THEN UNCHANGED loop_tasks ELSE MoveTask("", "top")
          /\ orch_ret' = OrchReturned("start_orchestration", IF r.raised THEN "" ELSE id, r.raised)
    /\ OrchFrame

\* _orchestration_loop from the test of the while loop to the dispatch on the
\* workflow's phase, or to the end of the task when the loop is left.
LoopTop ==
    /\ loop_tasks["top"] > 0
    /\ LET o  == Orchestrator
           o1 == [o EXCEPT !.session[1].current_iteration = @ + 1]
           failed == [o1 EXCEPT !.session[1].state = "failed", !.session[1].error_message = TRUE]
       IN IF ~(o.session[1].state = "running" /\ o.session[1].current_iteration < self_config.max_iterations)
          THEN Store(loop_exit(o)) /\ MoveTask("top", "")
          ELSE IF o1.workflow = <<>>
          THEN Store(loop_exit(failed)) /\ MoveTask("top", "")
          ELSE IF \E a \in DOMAIN o1.session[1].agents_status : o1.session[1].agents_status[a] = "error"
          THEN Store(loop_exit(failed)) /\ MoveTask("top", "")
          ELSE Store(o1) /\ MoveTask("top", o1.workflow[1].current_phase)
    /\ UNCHANGED orch_ret
    /\ OrchFrame

\* _orchestration_loop from the dispatch on the phase to the end of the
\* iteration.  has_files: the workspace holds at least one file.
LoopPhase(phase, has_files) ==
    /\ loop_tasks[phase] > 0
    /\ session # <<>>
    /\ \E o1 \in {phase_body(Orchestrator, phase)} :
          IF phase = "completed" \/ check_completion_criteria(o1, has_files)
          THEN Store(loop_exit(complete_orchestration(o1))) /\ MoveTask(phase, "")
          ELSE /\ \E o2 \in {IF detect_conflicts(o1) THEN resolve_conflicts(after_detect_conflicts(o1))
                                                     ELSE after_detect_conflicts(o1)} : Store(save_session(o2))
               /\ MoveTask(phase, "top")
    /\ UNCHANGED orch_ret
    /\ OrchFrame

\* pause_orchestration()
PauseOrchestration ==
    /\ IF session = <<>> \/ session[1].state # "running"
       THEN /\ orch_ret' = OrchReturned("pause_orchestration", "False", FALSE)
            /\ UNCHANGED <<session, agents, current_workflow, metrics, bus, session_file>>
       ELSE /\ Store(pause_orchestration(Orchestrator))
            /\ orch_ret' = OrchReturned("pause_orchestration", "True", FALSE)
    /\ UNCHANGED loop_tasks
    /\ OrchFrame

\* resume_orchestration()
ResumeOrchestration ==
    /\ IF session = <<>> \/ session[1].state # "paused"
       THEN /\ orch_ret' = OrchReturned("resume_orchestration", "False", FALSE)
            /\ UNCHANGED <<session, agents, current_workflow, metrics, bus, session_file, loop_tasks>>
       ELSE /\ CountTasks(LoopPositions) < MaxLoopTasks
            /\ Store(resume_orchestration(Orchestrator))
            /\ MoveTask("", "top")
            /\ orch_ret' = OrchReturned("resume_orchestration", "True", FALSE)
    /\ OrchFrame

\* stop_orchestration()
StopOrchestration ==
    /\ Store(stop_orchestration(Orchestrator))
    /\ orch_ret' = OrchReturned("stop_orchestration", IF session = <<>> THEN "False" ELSE "True", FALSE)
    /\ UNCHANGED loop_tasks
    /\ OrchFrame

\* load_session(session_id), called while no loop task is alive: after the
\* loop of this process has ended, or in a process that has started none.
LoadSession(id) ==
    /\ CountTasks(LoopPositions) = 0
    /\ IF id \notin DOMAIN session_file
       THEN /\ orch_ret' = OrchReturned("load_session", "False", FALSE)
            /\ UNCHANGED <<session, agents, current_workflow, metrics, bus, session_file>>
       ELSE /\ Store(load_session(Orchestrator, id))
            /\ orch_ret' = OrchReturned("load_session", "True", FALSE)
    /\ UNCHANGED loop_tasks
    /\ OrchFrame

\* The backend process starts again: a new AgentOrchestrator with a new
\* MessageBus, a new WorkflowEngine and new agents, over the sessions and
\* conversations directories the last process left.  No task of the old
\* event loop is alive.
NewOrchestrator ==
    /\ orch_ret.call # "__init__"
    /\ session' = <<>>
    /\ agents' = [agent_a |-> "idle", agent_b |-> "idle"]
    /\ loop_tasks' = [p \in LoopPositions |-> 0]
    /\ orch_ret' = [call |-> "__init__", value |-> "", raised |-> FALSE, repeated |-> FALSE]
    /\ current_workflow' = <<>>
    /\ metrics' = [workflows_started |-> 0, workflows_completed |-> 0]
    /\ bus' = [NewBus EXCEPT !.log = bus.log, !.next_id = bus.next_id, !.sends = bus.sends]
    /\ UNCHANGED session_file
    /\ OrchFrame

(***************************************************************************)
(* MessageTransformationEngine: templates and their fields                 *)
(***************************************************************************)

\* The field names templates declare: three of a caller's own, three that
\* _set_default_values knows, two of them with role-specific defaults.
FieldNames == {"a", "b", "c", "functionality", "api_endpoints", "endpoint_type"}

\* _set_default_values: the defaults table, on FieldNames.
default_values ==
    [ f \in {"functionality", "api_endpoints", "endpoint_type"} |->
        CASE f = "functionality" -> "requested functionality"
          [] f = "api_endpoints" -> "endpoints available"
          [] OTHER               -> "RESTful endpoints" ]

\* _set_default_values
set_default_values(context) ==
    [ k \in DOMAIN context \cup DOMAIN default_values |->
        IF k \in DOMAIN context THEN context[k] ELSE default_values[k] ]

\* _enrich_context without providers: the caller's context, the from_agent
\* entry and the defaults for what is still missing.
enrich_context(from_role, base_context) ==
    set_default_values(DictSet(base_context, "from_agent", from_role))

\* _extract_field_from_content; "" is None.
extract_field_from_content(field, content, metadata) ==
    IF field \in DOMAIN metadata THEN metadata[field]
    ELSE IF field = "functionality"
    THEN IF "api" \in content.words THEN "API implementation"
         ELSE IF {"frontend", "ui"} \cap content.words # {} THEN "Frontend interface"
         ELSE IF "backend" \in content.words THEN "Backend service"
         ELSE IF "database" \in content.words THEN "Database operations"
         ELSE ""
    ELSE IF field = "api_endpoints"
    THEN IF {"endpoint", "api"} \cap content.words # {} THEN "RESTful API endpoints"
         ELSE IF "route" \in content.words THEN "Application routes"
         ELSE ""
    ELSE ""

\* f"[{field} to be determined]"
to_be_determined(field) ==
    CASE field = "a" -> "[a to be determined]"
      [] field = "b" -> "[b to be determined]"
      [] field = "c" -> "[c to be determined]"
      [] field = "functionality" -> "[functionality to be determined]"
      [] field = "api_endpoints" -> "[api_endpoints to be determined]"
      [] OTHER -> "[endpoint_type to be determined]"

\* _get_intelligent_default whose last fallback is the empty string.
get_intelligent_default_empty_fallback(field, context) ==
    IF field \in DOMAIN default_values THEN default_values[field] ELSE ""

\* _get_intelligent_default
get_intelligent_default(field, context) ==
    LET sender_role == IF "from_agent" \in DOMAIN context THEN context["from_agent"] ELSE "unknown" IN
    IF sender_role = "frontend" /\ field = "functionality" THEN "Frontend user interface development"
    ELSE IF sender_role = "frontend" /\ field = "api_endpoints" THEN "Client-side API consumption endpoints"
    ELSE IF sender_role = "backend" /\ field = "functionality" THEN "Backend service implementation"
    ELSE IF sender_role = "backend" /\ field = "api_endpoints" THEN "Server API endpoints and services"
    ELSE IF field \in DOMAIN default_values THEN default_values[field]
    ELSE to_be_determined(field)

\* _ensure_template_fields: a required field that is missing or falsy takes
\* the extracted value, or else the default.
ensure_template_fields(context, required_fields, content, metadata) ==
    [ k \in DOMAIN context \cup required_fields |->
        IF k \in required_fields /\ (k \notin DOMAIN context \/ context[k] = "")
        THEN IF extract_field_from_content(k, content, metadata) # ""
             THEN extract_field_from_content(k, content, metadata)
             ELSE get_intelligent_default(k, context)
        ELSE context[k] ]

\* A MessageTransformationTemplate: the placeholders of its text and the
\* context_fields it declares.
Template(placeholders, context_fields) ==
    [placeholders |-> placeholders, context_fields |-> context_fields]

\* template.template.format(**safe_context) raises KeyError for a placeholder
\* the context has no entry for.
format_raises(template, safe_context) == ~(template.placeholders \subseteq DOMAIN safe_context)

\* template.template.format(**safe_context): the text with each placeholder
\* replaced, kept as the value each placeholder was replaced by.
format(template, safe_context) == [ f \in template.placeholders |-> safe_context[f] ]

\* MessageTransformationEngine.transform_message on a template the engine has:
\* the type and body of the message it returns.  An exception anywhere in
\* the method is caught and the original message returned.
engine_transform_message(template, from_role, content, metadata, context) ==
    LET safe_context == ensure_template_fields(enrich_context(from_role, context),
                                               template.context_fields, content, metadata)
    IN IF format_raises(template, safe_context)
       THEN [type |-> "task", transformed |-> FALSE, body |-> <<>>]
       ELSE [type |-> "context_enriched", transformed |-> TRUE, body |-> format(template, safe_context)]

\* The dicts a caller passes as context or metadata: no entry, an empty
\* value or a value for each key.
Dicts(keys) == UNION { [ks -> {"", "given"}] : ks \in SUBSET keys }

InitEngine == transform_ret = <<>>

TransformMessage(template, from_role, content, metadata, context) ==
    transform_ret' = << [ template |-> template, from_role |-> from_role, content |-> content,
                          metadata |-> metadata, context |-> context,
                          result |-> engine_transform_message(template, from_role, content, metadata, context) ] >>

(***************************************************************************)
(* MessageBus.send_message calls as concurrent tasks                       *)
(***************************************************************************)
\* send_message holds no lock.  Of the awaits on its path the one that can
\* give the event loop to another task is `await handler(data)` in
\* _trigger_event, when a handler is registered for "message_sent": every
\* other awaited coroutine of the pipeline runs without suspending.

\* The locals of one send_message call.  pc is where the call stands:
\* "handoff_event" in the handler of the handoff message's inner send,
\* "event" in the handler of its own message, "returned" when it is over.
SendCall(m, tm, hm, pc, seen, saved, ret) ==
    [ m |-> m, tm |-> tm, hm |-> hm, pc |-> pc, auto_transform_seen |-> seen,
      original_auto_transform |-> saved, ret |-> ret ]

\* The inner send_message(handoff_message) up to _trigger_event: the flag is
\* off, the message of "system" is evaluated for a handoff of its own and
\* routed.
send_handoff_begin(b, hm) ==
    LET b1 == append_and_track(b, hm, hm)
        b2 == IF b1.auto_handoff
              THEN [b1 EXCEPT !.handoff_decisions = @ \cup {<<evaluated_message(hm), evaluate_handoff(hm)>>}]
              ELSE b1
    IN route_message(b2, hm)

\* send_message from its first line to the first handler it waits in: the
\* bus it leaves and the locals of the call.  Without a handler, and for a
\* message that is rejected, the call runs to its return.
send_message_begin(b, m0, handlers) ==
    LET m  == [m0 EXCEPT !.id = b.next_id]
        b0 == [b EXCEPT !.next_id = @ + 1]
        tm == IF b0.auto_transform THEN apply_centralized_transformation(b0, m) ELSE m
        b1 == append_and_track(b0, m, tm)
        decision == IF b1.auto_handoff THEN evaluate_handoff(tm) ELSE <<>>
        b2 == IF b1.auto_handoff
              THEN [b1 EXCEPT !.handoff_decisions = @ \cup {<<evaluated_message(tm), decision>>}]
              ELSE b1
        hm == handoff_message(tm, decision[1], b2.next_id)
    IN IF "message_sent" \notin handlers \/ log_input_raises(m) \/ ~validate_message(m)
       THEN [ bus  |-> send_message(b, m0),
              call |-> SendCall(m, m, <<>>, "returned", b.auto_transform, b.auto_transform, send_message(b, m0).ret) ]
       ELSE IF decision = <<>>
       THEN [ bus  |-> route_message(b2, tm),
              call |-> SendCall(m, tm, <<>>, "event", b.auto_transform, b.auto_transform, FALSE) ]
       ELSE [ bus  |-> send_handoff_begin([b2 EXCEPT !.auto_transform = FALSE, !.next_id = @ + 1], hm),
              call |-> SendCall(m, tm, <<hm>>, "handoff_event", b.auto_transform, b2.auto_transform, FALSE) ]

\* send_message from the handler it waited in to the next one, or to its
\* return.  After the handoff's handler: the inner send persists and returns,
\* _check_automatic_handoff puts back the flag it saved and counts the
\* handoff, and the call routes its own message.
send_message_resume(b, call) ==
    IF call.pc = "handoff_event"
    THEN LET b1 == persist_message(b, call.hm[1])
             b2 == [b1 EXCEPT !.auto_transform = call.original_auto_transform, !.stats.handoffs = @ + 1]
         IN [ bus |-> route_message(b2, call.tm), call |-> [call EXCEPT !.pc = "event"] ]
    ELSE [ bus  |-> [persist_message(b, call.tm) EXCEPT !.ret = TRUE],
           call |-> [call EXCEPT !.pc = "returned", !.ret = TRUE] ]

InitCalls ==
    /\ event_handlers = {}
    /\ send_calls = <<>>

\* register_event_handler("message_sent", handler)
RegisterEventHandler ==
    /\ "message_sent" \notin event_handlers
    /\ event_handlers' = event_handlers \cup {"message_sent"}
    /\ UNCHANGED <<send_calls, busVars>>

\* A task calls send_message(m) and runs until the call suspends or returns.
SendBegins(m) ==
    /\ bus.sends < MaxSends
    /\ \E r \in {send_message_begin(bus, m, event_handlers)} :
          /\ bus' = [r.bus EXCEPT !.sends = @ + 1]
          /\ send_calls' = Append(send_calls, r.call)
          /\ IF r.call.pc = "returned"
             THEN send_ret' = r.bus.ret /\ send_raised' = r.bus.raised
             ELSE UNCHANGED <<send_ret, send_raised>>
    /\ UNCHANGED <<recv_ret, event_handlers>>

\* The event loop resumes a suspended call, which runs to its next handler or
\* to its return.
SendResumes(i) ==
    /\ i \in DOMAIN send_calls
    /\ send_calls[i].pc # "returned"
    /\ \E r \in {send_message_resume(bus, send_calls[i])} :
          /\ bus' = r.bus
          /\ send_calls' = [send_calls EXCEPT ![i] = r.call]
          /\ IF r.call.pc = "returned"
             THEN send_ret' = r.call.ret /\ send_raised' = FALSE
             ELSE UNCHANGED <<send_ret, send_raised>>
    /\ UNCHANGED <<recv_ret, event_handlers>>

vars == <<wfVars, busVars, termVars, recvVars, orchVars, engineVars, callVars>>

Init == InitWf /\ InitBus /\ InitTerm /\ InitRecv /\ InitOrch /\ InitEngine /\ InitCalls

WfFrame == UNCHANGED <<busVars, termVars, recvVars, orchVars, engineVars, callVars>>

\* The phase machine: a workflow with the two tasks of a plain objective.
NextWf ==
    \/ StartWorkflow("make a cli tool") /\ WfFrame
    \/ \E next_phase \in WorkflowPhase : AdvancePhase(next_phase) /\ WfFrame
    \/ \E task_id \in 1..3, status \in TaskStatus : UpdateTaskStatus(task_id, status) /\ WfFrame
    \/ DetectBlockers /\ WfFrame
    \/ PauseWorkflow /\ WfFrame
    \/ ResumeWorkflow /\ WfFrame
    \/ StopWorkflow /\ WfFrame

SpecWf == Init /\ [][NextWf]_vars

\* The task graph: a workflow with the four tasks of a frontend objective.
NextTasks ==
    \/ StartWorkflow("make a ui") /\ WfFrame
    \/ AdvancePhase("completed") /\ WfFrame
    \/ \E task_id \in 1..5, status \in TaskStatus : UpdateTaskStatus(task_id, status) /\ WfFrame
    \/ DetectBlockers /\ WfFrame

SpecTasks == Init /\ [][NextTasks]_vars

\* The message bus.
NextBus ==
    \/ \E role \in {"frontend", "backend"} : RegisterAgent(role) /\ UNCHANGED <<wfVars, termVars, recvVars, orchVars, engineVars, callVars>>
    \/ \E m \in SubmittedMessages : SendMessage(m) /\ UNCHANGED <<wfVars, termVars, recvVars, orchVars, engineVars, callVars>>
    \/ \E recipient \in {"agent_frontend", "agent_backend", "backend"} : ReceiveMessage(recipient) /\ UNCHANGED <<wfVars, termVars, recvVars, orchVars, engineVars, callVars>>

SpecBus == Init /\ [][NextBus]_vars

\* The message bus with the callers of its queries.
NextQueries ==
    \/ \E role \in {"frontend", "backend"} : RegisterAgent(role) /\ UNCHANGED <<wfVars, termVars, recvVars, orchVars, engineVars, callVars>>
    \/ \E m \in SubmittedMessages : SendMessage(m) /\ UNCHANGED <<wfVars, termVars, recvVars, orchVars, engineVars, callVars>>
    \/ \E recipient \in {"agent_frontend", "agent_backend", "backend"} : ReceiveMessage(recipient) /\ UNCHANGED <<wfVars, termVars, recvVars, orchVars, engineVars, callVars>>
    \/ \E count \in QueryCounts, session_id \in QuerySessions : GetRecentMessages(count, session_id) /\ UNCHANGED <<wfVars, termVars, recvVars, orchVars, engineVars, callVars>>
    \/ \E session_id \in QuerySessions : GetMessageCount(session_id) /\ UNCHANGED <<wfVars, termVars, recvVars, orchVars, engineVars, callVars>>
    \/ \E conversation_id \in DOMAIN bus.conversations \cup {"none"} : GetConversation(conversation_id) /\ UNCHANGED <<wfVars, termVars, recvVars, orchVars, engineVars, callVars>>
    \/ GetStatistics /\ UNCHANGED <<wfVars, termVars, recvVars, orchVars, engineVars, callVars>>

SpecQueries == Init /\ [][NextQueries]_vars

\* The messages between the two agents that a template applies to.
TransformedMessages ==
    { Msg("response", "agent_frontend", "agent_backend", NeedApi, "s1"),
      Msg("response", "agent_backend", "agent_frontend", ApiReady, "s1"),
      Msg("task", "orchestrator", "agent_backend", Hello, "s1"),
      Msg("response", "agent_frontend", "agent_backend", Hello, "s1") }

\* The message bus with agents that come and go.
NextProviders ==
    \/ \E role \in {"frontend", "backend"} : RegisterAgent(role) /\ UNCHANGED <<wfVars, termVars, recvVars, orchVars, engineVars, callVars>>
    \/ \E agent_id \in {"agent_frontend", "agent_backend"} : UnregisterAgent(agent_id) /\ UNCHANGED <<wfVars, termVars, recvVars, orchVars, engineVars, callVars>>
    \/ \E m \in TransformedMessages : SendMessage(m) /\ UNCHANGED <<wfVars, termVars, recvVars, orchVars, engineVars, callVars>>

SpecProviders == Init /\ [][NextProviders]_vars

\* The sessions whose data callers clear.
ClearedSessions == {"s1", "s2"}

\* The message bus of a backend whose sessions are cleared when they end.
NextThreads ==
    \/ \E role \in {"frontend", "backend"} : RegisterAgent(role) /\ UNCHANGED <<wfVars, termVars, recvVars, orchVars, engineVars, callVars>>
    \/ \E m \in SubmittedMessages : SendMessage(m) /\ UNCHANGED <<wfVars, termVars, recvVars, orchVars, engineVars, callVars>>
    \/ \E session_id \in ClearedSessions : ClearSessionData(session_id) /\ UNCHANGED <<wfVars, termVars, recvVars, orchVars, engineVars, callVars>>

SpecThreads == Init /\ [][NextThreads]_vars

\* One terminal process, its callers and its communication task.
NextTerm ==
    \/ \E id \in TerminalIds, spawned \in BOOLEAN : StartTerminal(id, spawned) /\ UNCHANGED <<wfVars, busVars, recvVars, orchVars, engineVars, callVars>>
    \/ \E id \in TerminalIds : StartTerminalReady(id) /\ UNCHANGED <<wfVars, busVars, recvVars, orchVars, engineVars, callVars>>
    \/ \E id \in TerminalIds : SendBegin(id) /\ UNCHANGED <<wfVars, busVars, recvVars, orchVars, engineVars, callVars>>
    \/ \E id \in TerminalIds : SendComplete(id) /\ UNCHANGED <<wfVars, busVars, recvVars, orchVars, engineVars, callVars>>
    \/ \E id \in TerminalIds : SendTimeout(id) /\ UNCHANGED <<wfVars, busVars, recvVars, orchVars, engineVars, callVars>>
    \/ \E id \in TerminalIds : WriteProcessInput(id) /\ UNCHANGED <<wfVars, busVars, recvVars, orchVars, engineVars, callVars>>
    \/ \E id \in TerminalIds : ProcessPrints(id) /\ UNCHANGED <<wfVars, busVars, recvVars, orchVars, engineVars, callVars>>
    \/ \E id \in TerminalIds : ProcessExits(id) /\ UNCHANGED <<wfVars, busVars, recvVars, orchVars, engineVars, callVars>>
    \/ \E id \in TerminalIds : ReadProcessOutput(id) /\ UNCHANGED <<wfVars, busVars, recvVars, orchVars, engineVars, callVars>>
    \/ \E id \in TerminalIds : StopTerminal(id) /\ UNCHANGED <<wfVars, busVars, recvVars, orchVars, engineVars, callVars>>

SpecTerm == Init /\ [][NextTerm]_vars

\* What the steps of the terminal manager leave alone.
TermFrame == UNCHANGED <<wfVars, busVars, recvVars, orchVars, engineVars, callVars>>

\* One terminal process started with a configuration of the caller's.
NextCrash ==
    \/ \E id \in TerminalIds, spawned, auto_restart \in BOOLEAN : StartTerminalConfig(id, spawned, <<TerminalConfig(auto_restart)>>) /\ TermFrame
    \/ \E id \in TerminalIds : StartTerminalReady(id) /\ TermFrame
    \/ \E id \in TerminalIds : SendBegin(id) /\ TermFrame
    \/ \E id \in TerminalIds : SendComplete(id) /\ TermFrame
    \/ \E id \in TerminalIds : SendTimeout(id) /\ TermFrame
    \/ \E id \in TerminalIds : WriteProcessInput(id) /\ TermFrame
    \/ \E id \in TerminalIds : ProcessPrints(id) /\ TermFrame
    \/ \E id \in TerminalIds : ProcessExits(id) /\ TermFrame
    \/ \E id \in TerminalIds : ReadProcessOutput(id) /\ TermFrame
    \/ \E id \in TerminalIds : StopTerminal(id) /\ TermFrame

\* The event loop runs every coroutine that can go on: the sleep of
\* start_terminal ends, the wait of send_message ends with a response or
\* with its timeout, the reader and the writer of the communication task
\* take their turns.  Callers need not call, and the process need not print
\* or exit.
SpecCrash ==
    /\ Init /\ [][NextCrash]_vars
    /\ WF_vars(\E id \in TerminalIds : StartTerminalReady(id) /\ TermFrame)
    /\ WF_vars(\E id \in TerminalIds : (SendComplete(id) \/ SendTimeout(id)) /\ TermFrame)
    /\ WF_vars(\E id \in TerminalIds : WriteProcessInput(id) /\ TermFrame)
    /\ WF_vars(\E id \in TerminalIds : ReadProcessOutput(id) /\ TermFrame)

\* One _receive_with_silent_period call against a process that keeps printing.
NextRecv ==
    \/ \E gap \in LineGaps, kind \in LineKinds : ReceiveBegins(gap, kind) /\ UNCHANGED <<wfVars, busVars, termVars, orchVars, engineVars, callVars>>
    \/ ProducerPrints /\ UNCHANGED <<wfVars, busVars, termVars, orchVars, engineVars, callVars>>
    \/ ReadlineReturns /\ UNCHANGED <<wfVars, busVars, termVars, orchVars, engineVars, callVars>>
    \/ ReadlineTimesOut /\ UNCHANGED <<wfVars, busVars, termVars, orchVars, engineVars, callVars>>
    \/ RecvTick /\ UNCHANGED <<wfVars, busVars, termVars, orchVars, engineVars, callVars>>

SpecRecv == Init /\ [][NextRecv]_vars

\* What the steps of a receive leave alone.
RecvFrame == UNCHANGED <<wfVars, busVars, termVars, orchVars, engineVars, callVars>>

\* One send_and_receive call under the TIMEOUT or the END_MARKER pattern.
NextLines ==
    \/ \E pattern \in LinePatterns, gap \in PrintGaps, alive \in BOOLEAN : SendAndReceiveBegins(pattern, gap, alive) /\ RecvFrame
    \/ \E line \in PrintedLines, gap \in PrintGaps : ProcessPrintsLine(line, gap) /\ RecvFrame
    \/ ProcessClosesStdout /\ RecvFrame
    \/ LineRead /\ RecvFrame
    \/ EndOfFileRead /\ RecvFrame
    \/ WaitForTimesOut /\ RecvFrame
    \/ LineTick /\ RecvFrame

SpecLines == Init /\ [][NextLines]_vars

\* The TerminalManager is through: every process it knows has been stopped
\* twice in a row and no start_terminal call is in flight.
TerminalStoppedTwice ==
    /\ term_ret.call = "stop_terminal" /\ term_ret.repeated
    /\ term_ret.id \in DOMAIN terminal_manager.processes
    /\ start_call = {}

\* No method of the orchestrator has been called yet.
OrchestratorUntouched == session = <<>> /\ orch_ret.call = "__init__"

\* The life cycle of a terminal, then the life cycle of the orchestrator's
\* session.  The TerminalManager and the AgentOrchestrator share no field, so
\* a step of one commutes with every step of the other and the behaviours of
\* each are the same in every interleaving: the terminal's steps are taken
\* while the orchestrator is untouched and the orchestrator's once the
\* terminal has been stopped twice.
NextStop ==
    \/ \E config \in Configs, env_ok, a_ok, b_ok \in BOOLEAN : TerminalStoppedTwice /\ StartOrchestration(config, env_ok, a_ok, b_ok) /\ UNCHANGED <<termVars, recvVars, engineVars, callVars>>
    \/ TerminalStoppedTwice /\ LoopTop /\ UNCHANGED <<termVars, recvVars, engineVars, callVars>>
    \/ \E phase \in WorkflowPhase, has_files \in BOOLEAN : TerminalStoppedTwice /\ LoopPhase(phase, has_files) /\ UNCHANGED <<termVars, recvVars, engineVars, callVars>>
    \/ TerminalStoppedTwice /\ PauseOrchestration /\ UNCHANGED <<termVars, recvVars, engineVars, callVars>>
    \/ TerminalStoppedTwice /\ ResumeOrchestration /\ UNCHANGED <<termVars, recvVars, engineVars, callVars>>
    \/ TerminalStoppedTwice /\ StopOrchestration /\ UNCHANGED <<termVars, recvVars, engineVars, callVars>>
    \/ \E id \in TerminalIds, spawned \in BOOLEAN : OrchestratorUntouched /\ StartTerminal(id, spawned) /\ UNCHANGED <<wfVars, busVars, recvVars, orchVars, engineVars, callVars>>
    \/ \E id \in TerminalIds : OrchestratorUntouched /\ StartTerminalReady(id) /\ UNCHANGED <<wfVars, busVars, recvVars, orchVars, engineVars, callVars>>
    \/ \E id \in TerminalIds : OrchestratorUntouched /\ ProcessExits(id) /\ UNCHANGED <<wfVars, busVars, recvVars, orchVars, engineVars, callVars>>
    \/ \E id \in TerminalIds : OrchestratorUntouched /\ StopTerminal(id) /\ UNCHANGED <<wfVars, busVars, recvVars, orchVars, engineVars, callVars>>

SpecStop == Init /\ [][NextStop]_vars

\* The templates of the calls: a caller's own fields, the shape of the
\* built-in frontend_to_backend_api_request (its text uses endpoint_type,
\* which it does not declare), mixes of both, and a text with a placeholder
\* nothing provides.
Templates ==
    { Template({"a", "b", "c"}, {"a", "b", "c"}),
      Template({"functionality", "api_endpoints", "endpoint_type"}, {"functionality", "api_endpoints"}),
      Template({"a", "functionality"}, {"a", "functionality"}),
      Template({"b", "api_endpoints"}, {"b", "api_endpoints"}),
      Template({"a", "x"}, {"a"}) }

\* transform_message calls.
NextEngine ==
    \E template \in Templates, from_role \in {"frontend", "backend", "orchestrator"},
       content \in {Hello, NeedApi}, metadata \in Dicts({"b"}), context \in Dicts({"a", "functionality"}) :
        /\ TransformMessage(template, from_role, content, metadata, context)
        /\ UNCHANGED <<wfVars, busVars, termVars, recvVars, orchVars, callVars>>

SpecEngine == Init /\ [][NextEngine]_vars

\* The messages of the concurrent senders: the orchestrator's task for the
\* frontend agent, the backend agent's reports and a frontend request.
ConcurrentMessages ==
    { Msg("task", "orchestrator", "agent_frontend", Hello, "s1"),
      Msg("response", "agent_backend", "agent_frontend", ApiReady, "s1"),
      Msg("response", "agent_backend", "agent_frontend", ImplementationCompleted, "s1"),
      Msg("response", "agent_frontend", "agent_backend", NeedApi, "s1"),
      Msg("task", "orchestrator", "agent_backend", Empty, "s1") }

\* Tasks of one event loop that send on the same bus.
NextCalls ==
    \/ RegisterEventHandler /\ UNCHANGED <<wfVars, termVars, recvVars, orchVars, engineVars>>
    \/ \E m \in ConcurrentMessages : SendBegins(m) /\ UNCHANGED <<wfVars, termVars, recvVars, orchVars, engineVars>>
    \/ \E i \in 1..MaxSends : SendResumes(i) /\ UNCHANGED <<wfVars, termVars, recvVars, orchVars, engineVars>>

SpecCalls == Init /\ [][NextCalls]_vars

\* A session over more than one life of the backend process: it is started,
\* runs, is paused, and is loaded and resumed by the next process.
NextReload ==
    \/ \E config \in Configs, env_ok, a_ok, b_ok \in BOOLEAN : StartOrchestration(config, env_ok, a_ok, b_ok) /\ UNCHANGED <<termVars, recvVars, engineVars, callVars>>
    \/ LoopTop /\ UNCHANGED <<termVars, recvVars, engineVars, callVars>>
    \/ \E phase \in WorkflowPhase, has_files \in BOOLEAN : LoopPhase(phase, has_files) /\ UNCHANGED <<termVars, recvVars, engineVars, callVars>>
    \/ PauseOrchestration /\ UNCHANGED <<termVars, recvVars, engineVars, callVars>>
    \/ ResumeOrchestration /\ UNCHANGED <<termVars, recvVars, engineVars, callVars>>
    \/ \E n \in 1..MaxSessions : LoadSession(SessionId(n)) /\ UNCHANGED <<termVars, recvVars, engineVars, callVars>>
    \/ NewOrchestrator /\ UNCHANGED <<termVars, recvVars, engineVars, callVars>>

SpecReload == Init /\ [][NextReload]_vars

\* A loop task is suspended inside a phase handler.
InPhaseHandler == \E phase \in WorkflowPhase : loop_tasks[phase] > 0

\* A session whose callers stop it only while an iteration of the loop is
\* suspended in a phase handler.
NextInFlight ==
    \/ \E config \in Configs, env_ok, a_ok, b_ok \in BOOLEAN : StartOrchestration(config, env_ok, a_ok, b_ok) /\ UNCHANGED <<termVars, recvVars, engineVars, callVars>>
    \/ LoopTop /\ UNCHANGED <<termVars, recvVars, engineVars, callVars>>
    \/ \E phase \in WorkflowPhase, has_files \in BOOLEAN : LoopPhase(phase, has_files) /\ UNCHANGED <<termVars, recvVars, engineVars, callVars>>
    \/ PauseOrchestration /\ UNCHANGED <<termVars, recvVars, engineVars, callVars>>
    \/ ResumeOrchestration /\ UNCHANGED <<termVars, recvVars, engineVars, callVars>>
    \/ InPhaseHandler /\ StopOrchestration /\ UNCHANGED <<termVars, recvVars, engineVars, callVars>>

SpecInFlight == Init /\ [][NextInFlight]_vars

(***************************************************************************)
(* Message Bus properties                                                  *)
(***************************************************************************)

\* What a rejected send must leave alone: the history, the threads, the turn
\* and progress state and the queues.
C1_Observed(b) == <<b.messages, b.conversations, b.turn_state, b.message_queues>>

\* C1: a send_message call that returns False leaves the message history, the
\* conversation threads, the turn and progress state and every queue as they
\* were.  bus.sends counts the send_message calls: the steps that move it are
\* the steps of SendMessage.
C1_RejectedSendChangesNothing ==
    [][ (bus'.sends = bus.sends + 1 /\ ~send_ret') => C1_Observed(bus') = C1_Observed(bus) ]_vars

\* A send was rejected on a bus that already holds an accepted message in its
\* history, a thread, turn state and a queue.
C1_Witness ==
    /\ ~send_ret /\ bus.sends = 2
    /\ Len(bus.messages) = 1
    /\ DOMAIN bus.conversations # {} /\ DOMAIN bus.turn_state # {}
    /\ \E q \in DOMAIN bus.message_queues : Len(bus.message_queues[q]) = 1

\* The messages the bus has to reject.
C2_Invalid(m) ==
    \/ m.sender = m.recipient /\ m.type # "system"
    \/ m.sender = "" \/ m.recipient = "" \/ m.session_id = ""
    \/ m.content \in {Empty, NoneContent}
    \/ m.content.len > 50000

\* C2: send_message never raises; it returns False for a message whose sender
\* equals its recipient (type other than SYSTEM), for an empty sender,
\* recipient, content or session id and for content above 50000 characters,
\* and it accepts a SYSTEM message addressed to its own sender.
C2_InvalidRejectedWithoutRaising ==
    [][ /\ bus'.sends = bus.sends + 1 => ~send_raised'
        /\ \A m \in SubmittedMessages :
              (bus'.sends = bus.sends + 1 /\ C2_Invalid(m) /\ SendMessage(m)) => ~send_ret'
        /\ \A m \in SubmittedMessages :
              (bus'.sends = bus.sends + 1 /\ m.type = "system" /\ m.sender = m.recipient
                    /\ ~C2_Invalid(m) /\ SendMessage(m)) => send_ret' ]_vars

\* The SYSTEM message "system" sent to itself is in the history and in the
\* queue of "system", and the send after it was rejected.
C2_Witness ==
    /\ ~send_ret /\ bus.sends = 2
    /\ Len(bus.messages) = 1
    /\ bus.messages[1].type = "system" /\ bus.messages[1].sender = bus.messages[1].recipient
    /\ "system" \in DOMAIN bus.message_queues

\* The queue entries of bus b that are the message entered under id, or the
\* transformed message made from it.
C3_Placed(b, id) ==
    { <<q, i>> \in (DOMAIN b.message_queues) \X (1..(2 * MaxSends)) :
        /\ i \in DOMAIN b.message_queues[q]
        /\ (b.message_queues[q][i].id = id \/ b.message_queues[q][i].reply_to = id) }

\* C3: every message send_message accepts is on at least one queue when the
\* call returns; a point-to-point message is on the queue of its recipient
\* and on no other.
C3_AcceptedMessageIsQueued ==
    [][ \A m \in SubmittedMessages :
            (SendMessage(m) /\ send_ret') =>
                /\ C3_Placed(bus', bus.next_id) # {}
                /\ m.recipient \notin {"all", "both"} =>
                      \A p \in C3_Placed(bus', bus.next_id) : p[1] = m.recipient ]_vars

(***************************************************************************)
(* Terminal Manager properties                                             *)
(***************************************************************************)

\* C4: the line a TerminalManager.send_message call returns was printed by the
\* process after the text of that call was written to its stdin; the text of
\* the k-th send to a process is the k-th text written to it.
C4_ReplyAnswersItsSend ==
    (term_ret.call = "send_message" /\ term_ret.value # <<>>) =>
        term_ret.value[1].after >= terminal_manager.processes[term_ret.id].message_count

(***************************************************************************)
(* Process Transport properties                                            *)
(***************************************************************************)

\* C9: with silent_period = 2 s and max_timeout = 5 s, a receive from a
\* process that keeps printing returns when the 5 s are reached: it has not
\* returned before them, and it is not still reading once they and the
\* readline that was under way have passed.
C9_ReturnsAtMaxTimeout ==
    /\ receiver.pc = "returned" => receiver.returned_at >= max_timeout
    /\ receiver.pc = "readline" => now <= max_timeout + ReadlineTimeout

(***************************************************************************)
(* Workflow Engine properties                                              *)
(***************************************************************************)

\* C5: in every reachable state of a WorkflowExecution, iteration_count is at
\* most max_iterations, for any sequence of advance_phase calls.
C5_IterationCountWithinMax ==
    current_workflow # <<>> =>
        current_workflow[1].iteration_count <= current_workflow[1].max_iterations

\* C6: when advance_phase(Iteration) brings iteration_count up to
\* max_iterations, current_phase and state are Completed afterwards; when the
\* count is still below the maximum, current_phase is Implementation afterwards.
C6_IterationForcesCompleted ==
    [][(current_workflow # <<>> /\ AdvancePhase("iteration")) =>
          IF current_workflow'[1].iteration_count >= current_workflow'[1].max_iterations
          THEN /\ current_workflow'[1].current_phase = "completed"
               /\ current_workflow'[1].state = "completed"
          ELSE current_workflow'[1].current_phase = "implementation"]_vars

\* C7: after advance_phase(Completed) returns True, every task that was Pending
\* is Skipped, every task that was InProgress is Completed, every other task
\* keeps its status, so no task is Pending or InProgress.
C7_CompletedClosesTasks ==
    [][(current_workflow # <<>> /\ AdvancePhase("completed") /\ wf_ret') =>
          \A i \in DOMAIN current_workflow[1].all_tasks :
              LET before == current_workflow[1].all_tasks[i].status
                  after  == current_workflow'[1].all_tasks[i].status
              IN /\ after \notin {"pending", "in_progress"}
                 /\ before = "pending" => after = "skipped"
                 /\ before = "in_progress" => after = "completed"
                 /\ before \in {"completed", "failed", "blocked", "skipped"} => after = before]_vars

\* C7 witness: a completed workflow whose tasks were closed both ways.
C7_Witness ==
    /\ current_workflow # <<>>
    /\ wf_ret
    /\ current_workflow[1].current_phase = "completed"
    /\ current_workflow[1].state = "completed"
    /\ current_workflow[1].iteration_count = 0
    /\ \E i, j \in DOMAIN current_workflow[1].all_tasks :
          /\ current_workflow[1].all_tasks[i].status = "skipped"
          /\ current_workflow[1].all_tasks[j].status = "completed"

\* The failed_dependency blockers the claim C8 describes: task T is Pending and
\* D, one of T's declared dependency names, is a task whose status is Failed.
C8_Expected(tasks) ==
    { blocker("failed_dependency", tasks[p[1]].name, tasks[p[2]].name) :
        p \in { q \in (DOMAIN tasks) \X (DOMAIN tasks) :
            /\ tasks[q[1]].status = "pending"
            /\ \E k \in DOMAIN tasks[q[1]].dependencies : tasks[q[1]].dependencies[k] = tasks[q[2]].name
            /\ tasks[q[2]].status = "failed" } }

\* C8: detect_blockers reports a failed_dependency blocker for task T naming
\* dependency D exactly when T is Pending and D, one of T's dependency names,
\* is a task whose status is Failed, and for no other task.
C8_FailedDependencyBlockers ==
    current_workflow # <<>> =>
        /\ \A stuck \in SUBSET DOMAIN current_workflow[1].all_tasks, long_running \in BOOLEAN :
              { b \in detect_blockers(current_workflow[1], stuck, long_running) : b.type = "failed_dependency" }
                  = C8_Expected(current_workflow[1].all_tasks)
        /\ { b \in blockers : b.type = "failed_dependency" } \subseteq C8_Expected(current_workflow[1].all_tasks)

\* C8 witness: detect_blockers has returned a failed_dependency record while
\* another task with a dependency is not reported.
C8_Witness ==
    /\ \E b \in blockers : b.type = "failed_dependency" /\ b.task_name = "frontend_planning"
    /\ current_workflow[1].all_tasks[1].status = "failed"
    /\ current_workflow[1].all_tasks[3].status = "in_progress"

(***************************************************************************)
(* Stop properties                                                         *)
(***************************************************************************)

\* C10: stop is idempotent.  Every stop_terminal(id) of a known process
\* returns without raising and leaves the process status Stopped, and every
\* stop_orchestration() of a session returns without raising and leaves the
\* session Stopped, both agents Stopped and the workflow stopped; in both
\* cases the state a stop leaves is a state that one more stop leaves exactly
\* as it is, so that two calls end in the state one call ends in.
C10_StopIsIdempotent ==
    [][ /\ \A id \in TerminalIds :
              (StopTerminal(id) /\ id \in DOMAIN terminal_manager.processes) =>
                  /\ ~term_ret'.raised
                  /\ terminal_manager'.processes[id].status = "stopped"
                  /\ stop_terminal(terminal_manager', id) = terminal_manager'
                  /\ terminate(os_process', id) = os_process'
        /\ (StopOrchestration /\ session # <<>>) =>
                  /\ ~orch_ret'.raised
                  /\ orch_ret'.value = "True"
                  /\ session'[1].state = "stopped"
                  /\ \A a \in DOMAIN agents' : agents'[a] = "stopped"
                  /\ current_workflow' # <<>> => current_workflow'[1].state = "failed"
                  /\ stop_orchestration(Orchestrator') = Orchestrator'
      ]_vars

\* C10 witness: stop_terminal has been called twice in a row on a process that
\* was started, and stop_orchestration twice in a row on a session whose
\* workflow was started; everything is stopped.
C10_Witness ==
    /\ term_ret.call = "stop_terminal" /\ term_ret.repeated /\ ~term_ret.raised
    /\ term_ret.id \in DOMAIN terminal_manager.processes
    /\ terminal_manager.processes[term_ret.id].status = "stopped"
    /\ orch_ret.call = "stop_orchestration" /\ orch_ret.repeated /\ orch_ret.value = "True"
    /\ session # <<>> /\ session[1].state = "stopped"
    /\ current_workflow # <<>> /\ current_workflow[1].state = "failed"
    /\ \A a \in DOMAIN agents : agents[a] = "stopped"

(***************************************************************************)
(* Persistence properties                                                  *)
(***************************************************************************)

\* C11: the messages load_conversation_history rebuilds from a session's log
\* are the messages the bus delivered for that session, equal in id, sender,
\* recipient, content, session id and type, one per accepted message.
C11_Fields(m) == <<m.id, m.sender, m.recipient, m.content, m.session_id, m.type>>

C11_Delivered(s) == SelectSeq(bus.messages, LAMBDA m : m.session_id = s)

C13_NoValueGiven(call, f) ==
    /\ f \notin DOMAIN call.context
    /\ f \notin DOMAIN call.metadata
    /\ extract_field_from_content(f, call.content, call.metadata) = ""

C13_DefaultTexts ==
    { "requested functionality", "endpoints available", "RESTful endpoints",
      "Frontend user interface development", "Client-side API consumption endpoints",
      "Backend service implementation", "Server API endpoints and services",
      "[a to be determined]", "[b to be determined]", "[c to be determined]" }

C13_TemplateFieldsResolve ==
    \A call \in { transform_ret[i] : i \in DOMAIN transform_ret } :
        call.template.placeholders = call.template.context_fields =>
            /\ call.result.transformed
            /\ DOMAIN call.result.body = call.template.context_fields
            /\ \A f \in call.template.context_fields :
                  /\ call.result.body[f] # ""
                  /\ C13_NoValueGiven(call, f) => call.result.body[f] \in C13_DefaultTexts

\* A template that declares a, b and c was formatted for a message that
\* gives no value for any of them.
C13_Witness ==
    /\ transform_ret # <<>>
    /\ transform_ret[1].template = Template({"a", "b", "c"}, {"a", "b", "c"})
    /\ transform_ret[1].context = <<>> /\ transform_ret[1].metadata = <<>>
    /\ transform_ret[1].result.body["a"] = "[a to be determined]"

(***************************************************************************)
(* Concurrent sends                                                        *)
(***************************************************************************)

\* C14: the pipeline is atomic per message.  Every send_message call reads
\* the auto_transform setting the bus was built with, whatever handoff
\* another call has in progress, and once no call is in flight the setting
\* has that value again.
C14_SendsDoNotDisturbEachOther ==
    /\ \A i \in DOMAIN send_calls : send_calls[i].auto_transform_seen = NewBus.auto_transform
    /\ (\A i \in DOMAIN send_calls : send_calls[i].pc = "returned")
           => bus.auto_transform = NewBus.auto_transform

(***************************************************************************)
(* Session control while the loop runs                                     *)
(***************************************************************************)

\* stop_orchestration has set the session to STOPPED, no other method of the
\* orchestrator has been called since, and a loop task of the session is
\* still alive: in a phase handler, or back at the top of the loop.
C15_StoppedInFlight ==
    /\ session # <<>> /\ session[1].state = "stopped"
    /\ orch_ret.call = "stop_orchestration"
    /\ CountTasks(LoopPositions) > 0

\* C15: stopping is safe while work is in flight.  Once stop_orchestration
\* has set the session to STOPPED while an iteration of the loop was in
\* flight, every step the loop task takes from there, through the rest of the
\* iteration and the exit code of the loop, leaves the session STOPPED.  The
\* steps of the loop task are those that leave orch_ret alone.
C15_StoppedStaysStopped ==
    [][ (C15_StoppedInFlight /\ orch_ret' = orch_ret)
        => session' # <<>> /\ session'[1].state = "stopped" ]_vars

\* The session, both agents and the workflow, when the engine has one, are
\* in the given states.
C16_Layers(session_state, agent_status, workflow_state) ==
    /\ session # <<>> /\ session[1].state = session_state
    /\ \A a \in DOMAIN agents : agents[a] = agent_status
    /\ current_workflow # <<>> => current_workflow[1].state = workflow_state

\* C16: pause, resume and stop propagate to every layer.  When
\* pause_orchestration returns True the session, both agents and the
\* workflow are paused; when resume_orchestration returns True they are all
\* running; when stop_orchestration returns True the session and the agents
\* are stopped and the workflow is in FAILED, the state WorkflowEngine.stop
\* leaves.
C16_ControlPropagates ==
    [][ (orch_ret' # orch_ret /\ orch_ret'.value = "True") =>
          /\ orch_ret'.call = "pause_orchestration" => C16_Layers("paused", "paused", "paused")'
          /\ orch_ret'.call = "resume_orchestration" => C16_Layers("running", "active", "running")'
          /\ orch_ret'.call = "stop_orchestration" => C16_Layers("stopped", "stopped", "failed")' ]_vars

\* The iteration the loop task at the top of the loop is about to begin ends
\* in failure: the workflow engine has no workflow, or an agent of the
\* session is in ERROR.
C17_IterationFails ==
    /\ session # <<>> /\ loop_tasks["top"] > 0
    /\ session[1].state = "running" /\ session[1].current_iteration < OrchMaxIterations
    /\ \/ current_workflow = <<>>
       \/ \E a \in DOMAIN session[1].agents_status : session[1].agents_status[a] = "error"

\* C17: a failed session reports Failed.  When an iteration of the loop ends
\* in failure, the session is FAILED with a non-empty error_message once the
\* loop task has run through the exit code of the loop, on every iteration up
\* to and including iteration max_iterations.  The steps of the loop are
\* those that move a loop task and leave orch_ret alone.
C17_FailedSessionReportsFailed ==
    [][ (C17_IterationFails /\ loop_tasks'["top"] < loop_tasks["top"] /\ orch_ret' = orch_ret)
        => session'[1].state = "failed" /\ session'[1].error_message ]_vars

(***************************************************************************)
(* Handoff rules                                                           *)
(***************************************************************************)

\* The positions in handoff_rules of the rules whose source role is the role
\* of tm's sender and whose condition tm's body meets.
C18_MatchingRules(tm) ==
    { i \in DOMAIN handoff_rules :
        /\ handoff_rules[i].from_role = determine_agent_role_from_message(tm)
        /\ rule_condition(handoff_rules[i].trigger, tm) }

\* The handoff messages a send_message step has emitted: what the history
\* holds behind the submitted message.
C18_Emitted == SubSeq(bus'.messages, Len(bus.messages) + 2, Len(bus'.messages))

\* C18: handoff rules are applied first-match-wins.  When send_message has
\* accepted a message of which one or more rules match the sender role and the
\* body, exactly one handoff message is emitted, addressed to the target role
\* of the first matching rule in list order and of that rule's resulting
\* message type (HANDOFF or REVIEW); when no rule matches, none is emitted.
C18_FirstMatchingRuleWins ==
    [][ (bus'.sends = bus.sends + 1 /\ send_ret') =>
          LET tm   == bus'.messages[Len(bus.messages) + 1]
              hits == C18_MatchingRules(tm)
          IN IF hits = {} THEN C18_Emitted = <<>>
             ELSE LET rule == handoff_rules[CHOOSE i \in hits : \A j \in hits : i <= j]
                  IN /\ Len(C18_Emitted) = 1
                     /\ C18_Emitted[1].sender = "system"
                     /\ C18_Emitted[1].recipient = rule.to_role
                     /\ C18_Emitted[1].type = rule.message_type ]_vars

\* The messages a send_message step has put into the history behind the
\* submitted one, when it accepted it.
C19_HandoffMessages == SubSeq(bus'.messages, Len(bus.messages) + 2, Len(bus'.messages))

C20_TargetRole ==
    LET tm   == bus'.messages[Len(bus.messages) + 1]
        hits == C18_MatchingRules(tm)
    IN handoff_rules[CHOOSE i \in hits : \A j \in hits : i <= j].to_role

\* C20: a triggered handoff reaches its target.  When send_message has
\* emitted a handoff message, the message stands on the delivery queue of
\* every agent that is registered with the bus under the rule's target role,
\* where receive_message for that agent's id finds it.
C20_HandoffReachesTarget ==
    [][ (bus'.sends = bus.sends + 1 /\ Len(bus'.messages) = Len(bus.messages) + 2) =>
          \A agent_id \in DOMAIN bus'.registered_agents :
             bus'.registered_agents[agent_id].role = C20_TargetRole =>
                /\ agent_id \in DOMAIN bus'.message_queues
                /\ \E i \in 1..Len(bus'.message_queues[agent_id]) :
                      bus'.message_queues[agent_id][i] = bus'.messages[Len(bus'.messages)] ]_vars

(***************************************************************************)
(* Conversation threads                                                    *)
(***************************************************************************)

\* What a thread is for: the session and the unordered pair of participants.
C21_Key(m) == <<m.session_id, {m.sender, m.recipient}>>

\* The keys of the threads of conversations.
C21_Keys(conversations) == { C21_Key(conversations[c][1]) : c \in DOMAIN conversations }

\* The messages of the thread for key, <<>> when there is none.
C21_Thread(conversations, key) ==
    LET ids == { c \in DOMAIN conversations : C21_Key(conversations[c][1]) = key }
    IN IF ids = {} THEN <<>> ELSE conversations[CHOOSE c \in ids : TRUE]

\* The messages a step has appended to the history.
C21_Accepted == SubSeq(bus'.messages, Len(bus.messages) + 1, Len(bus'.messages))

\* C21: conversation threads are keyed by the unordered participant pair plus
\* the session.  A send appends each message it accepts, in order, to the one
\* thread of the message's pair and session (created when there is none), so
\* that A->B and B->A share a thread and another session has its own; no two
\* threads stand for the same pair and session; a thread goes away only in
\* clear_session_data for its session, which leaves the threads and the
\* messages of every other session as they were.
C21_ThreadsKeyedByPairAndSession ==
    [][ /\ \A c1, c2 \in DOMAIN bus'.conversations :
              /\ \A i \in 1..Len(bus'.conversations[c1]) :
                    C21_Key(bus'.conversations[c1][i]) = C21_Key(bus'.conversations[c1][1])
              /\ c1 # c2 => C21_Key(bus'.conversations[c1][1]) # C21_Key(bus'.conversations[c2][1])
        /\ bus'.sends = bus.sends + 1 =>
              \A key \in C21_Keys(bus.conversations) \cup C21_Keys(bus'.conversations) :
                 C21_Thread(bus'.conversations, key) =
                    C21_Thread(bus.conversations, key) \o SelectSeq(C21_Accepted, LAMBDA msg : C21_Key(msg) = key)
        /\ bus'.sends = bus.sends =>
              \A key \in C21_Keys(bus.conversations) :
                 \/ C21_Thread(bus'.conversations, key) = C21_Thread(bus.conversations, key)
                 \/ /\ bus' = clear_session_data(bus, key[1])
                    /\ C21_Thread(bus'.conversations, key) = <<>>
                    /\ \A other \in C21_Keys(bus.conversations) :
                          other[1] # key[1] =>
                             C21_Thread(bus'.conversations, other) = C21_Thread(bus.conversations, other)
                    /\ SelectSeq(bus'.messages, LAMBDA msg : msg.session_id # key[1])
                          = SelectSeq(bus.messages, LAMBDA msg : msg.session_id # key[1]) ]_vars

\* Session s2 has been cleared after a send in it (its log is there, the
\* history and the threads hold nothing of it), and the thread and the
\* messages of session s1 are still there.
C21_Witness ==
    /\ "s2" \in DOMAIN bus.log
    /\ \A i \in 1..Len(bus.messages) : bus.messages[i].session_id = "s1"
    /\ \A key \in C21_Keys(bus.conversations) : key[1] = "s1"
    /\ \E key \in C21_Keys(bus.conversations) :
          C21_Thread(bus.conversations, key) = SelectSeq(bus.messages, LAMBDA msg : C21_Key(msg) = key)

\* The turn counters kept for the pair sender, recipient of thread in its
\* session, whichever of the two sent.
C22_TurnCounts(thread) ==
    { bus.turn_state[key].turn_count :
        key \in DOMAIN bus.turn_state \cap
                { thread[1].session_id \o "_" \o thread[1].sender \o "_" \o thread[1].recipient,
                  thread[1].session_id \o "_" \o thread[1].recipient \o "_" \o thread[1].sender } }

\* C22: turn tracking is per conversation thread.  For every thread between
\* two participants that have a role, the turn count tracked for the pair is
\* one number and it is the number of messages appended to the thread.
C22_TurnCountIsThreadLength ==
    \A c \in DOMAIN bus.conversations :
       (/\ get_registered_agent_role(bus, bus.conversations[c][1].sender) # ""
        /\ get_registered_agent_role(bus, bus.conversations[c][1].recipient) # "")
       => C22_TurnCounts(bus.conversations[c]) = {Len(bus.conversations[c])}

(***************************************************************************)
(* Context providers                                                       *)
(***************************************************************************)

\* agent_id is registered with the bus and active.
C23_Active(agent_id) ==
    agent_id \in DOMAIN bus.registered_agents /\ bus.registered_agents[agent_id].active

\* C23: only active registered providers take part in a transformation.  A
\* send_message invokes the provider of an agent only if the agent is
\* registered and active, and the context it builds holds no value that the
\* provider of another agent supplied: once unregister_agent(a) has returned
\* True, a's provider is out of every later send.
C23_OnlyActiveProviders ==
    [][ bus'.sends = bus.sends + 1 =>
          /\ \A i \in 1..Len(bus'.provider_calls) : C23_Active(bus'.provider_calls[i])
          /\ \A agent_id \in {"agent_frontend", "agent_backend"} :
                ~C23_Active(agent_id) =>
                   \A k \in DOMAIN bus'.enriched_context :
                      bus'.enriched_context[k] # provide_agent_context(agent_id).specialization ]_vars

\* The keys f"{agent_id}_{key}" of the pairs the providers of the active
\* agents return.
C24_PrefixedKeys ==
    { agent_id \o "_" \o key : agent_id \in {a \in {"agent_frontend", "agent_backend"} : C23_Active(a)},
                               key \in {"agent_role", "specialization"} }

\* C24: provider values are namespaced.  The context a send_message builds
\* holds, besides the caller's entries and the entries of the message itself,
\* only keys prefixed with the id of an active agent, each with the value
\* that agent's provider returned for the key; the caller's entries keep the
\* caller's values.
C24_ProviderValuesNamespaced ==
    [][ (bus'.sends = bus.sends + 1 /\ bus'.enriched_context # <<>>) =>
          /\ DOMAIN bus'.enriched_context \subseteq
                {"auto_generated", "centralized_pipeline", "original_message", "from_agent", "to_agent", "session_id"}
                   \cup C24_PrefixedKeys
          /\ bus'.enriched_context["auto_generated"] = "True"
          /\ bus'.enriched_context["centralized_pipeline"] = "True"
          /\ \A agent_id \in {"agent_frontend", "agent_backend"}, key \in {"agent_role", "specialization"} :
                C23_Active(agent_id) =>
                   bus'.enriched_context[agent_id \o "_" \o key] = provide_agent_context(agent_id)[key] ]_vars

(***************************************************************************)
(* Stored messages                                                         *)
(***************************************************************************)

\* The messages the bus holds: in the history, in a conversation thread or
\* on a delivery queue.
C25_Stored ==
    { bus.messages[i] : i \in 1..Len(bus.messages) }
       \cup UNION { { bus.conversations[c][i] : i \in 1..Len(bus.conversations[c]) } : c \in DOMAIN bus.conversations }
       \cup UNION { { bus.message_queues[q][i] : i \in 1..Len(bus.message_queues[q]) } : q \in DOMAIN bus.message_queues }

\* C25: every message the bus holds has a sender different from its
\* recipient unless its type is SYSTEM; transformation and automatic handoff
\* store no message that breaks this.
C25_SenderDiffersFromRecipient ==
    \A msg \in C25_Stored : msg.sender # msg.recipient \/ msg.type = "system"

\* The bus holds a SYSTEM message an agent sent to itself, a transformed
\* message and a handoff message.
C25_Witness ==
    /\ \E msg \in C25_Stored : msg.sender = msg.recipient /\ msg.sender = "agent_frontend"
    /\ \E msg \in C25_Stored : msg.type = "context_enriched"
    /\ \E msg \in C25_Stored : msg.type = "handoff"

(***************************************************************************)
(* Workflow phases                                                         *)
(***************************************************************************)

\* The edges of the documented phase machine.
C26_Edges ==
    { <<"initialization", "planning">>, <<"planning", "implementation">>,
      <<"implementation", "review">>, <<"review", "completed">>,
      <<"review", "iteration">>, <<"iteration", "implementation">> }
       \cup { <<phase, to>> : phase \in WorkflowPhase, to \in {"paused", "failed"} }

\* C26: current_phase changes only along the edges of the documented state
\* machine.  A step that leaves the engine with the same workflow in another
\* phase has followed an edge; one pass through Iteration back to
\* Implementation counts as the two edges it takes.
C26_PhaseFollowsEdges ==
    [][ (/\ current_workflow # <<>> /\ current_workflow' # <<>>
         /\ current_workflow'[1].current_phase # current_workflow[1].current_phase
         /\ current_workflow'[1].state = "running"
         /\ current_workflow[1].state = "running")
        => \/ <<current_workflow[1].current_phase, current_workflow'[1].current_phase>> \in C26_Edges
           \/ /\ <<current_workflow[1].current_phase, "iteration">> \in C26_Edges
              /\ current_workflow'[1].current_phase = "implementation"
              /\ current_workflow'[1].iteration_count = current_workflow[1].iteration_count + 1 ]_vars

\* C27: no task is InProgress while one of its named dependencies is in a
\* status other than Completed or Skipped.
C27_NoStartBeforeDependencies ==
    current_workflow # <<>> =>
       \A i \in DOMAIN current_workflow[1].all_tasks :
          current_workflow[1].all_tasks[i].status = "in_progress" =>
             \A k \in DOMAIN current_workflow[1].all_tasks[i].dependencies :
                \A dep \in { current_workflow[1].all_tasks[j] :
                               j \in { n \in DOMAIN current_workflow[1].all_tasks :
                                         current_workflow[1].all_tasks[n].name
                                            = current_workflow[1].all_tasks[i].dependencies[k] } } :
                   dep.status \in {"completed", "skipped"}

(***************************************************************************)
(* The iteration bound                                                     *)
(***************************************************************************)

\* C28: the orchestration loop is bounded by the session's own
\* configuration.  session.current_iteration never exceeds the
\* max_iterations of the configuration the session was started with: the
\* config passed to start_orchestration, or the orchestrator's when none was
\* passed.
C28_IterationWithinSessionConfig ==
    session # <<>> => session[1].current_iteration <= session[1].config.max_iterations

(***************************************************************************)
(* Crashed processes                                                       *)
(***************************************************************************)

\* Process id has ended by itself: it is gone and stop_terminal was not
\* called for it.
C29_ExitedOnItsOwn(id) ==
    /\ id \in DOMAIN terminal_manager.processes
    /\ ~os_process[id].alive
    /\ terminal_manager.processes[id].status # "stopped"

\* The crash of process id has been handled as its restart policy says, or
\* the process has been stopped by its owner since.
C29_Handled(id) ==
    /\ id \in DOMAIN terminal_manager.processes
    /\ \/ terminal_manager.processes[id].status = "stopped"
       \/ IF terminal_manager.processes[id].config.auto_restart
          THEN terminal_manager.processes[id].restart_count > 0
          ELSE terminal_manager.processes[id].status = "error"

\* C29: a crash is detected and handled according to the restart policy.
\* After a managed process has exited on its own, its status does not stay
\* Ready or Active: with auto_restart the process is eventually restarted
\* (restart_count increases), otherwise the status eventually becomes Error.
C29_CrashIsHandled ==
    \A id \in TerminalIds : C29_ExitedOnItsOwn(id) ~> C29_Handled(id)

\* start_terminal returns the id of process id in this step: its sleep is
\* over and it reports the process as READY.
C30_StartReturns(id) ==
    /\ id \in start_call /\ id \notin start_call'
    /\ term_ret'.call = "start_terminal" /\ term_ret'.id = id /\ ~term_ret'.raised

\* C30: start_terminal fails when the process cannot be used.  It never
\* returns with the process reported as Ready when the process has already
\* exited, or was stopped or marked Error while start_terminal was waiting.
C30_ReadyOnlyWhenUsable ==
    [][ \A id \in TerminalIds :
           C30_StartReturns(id)
              => /\ os_process[id].alive
                 /\ terminal_manager.processes[id].status \notin {"stopped", "error"} ]_vars

(***************************************************************************)
(* Response patterns                                                       *)
(***************************************************************************)

\* C31: with the fixed-timeout strategy a receive returns no later than
\* timeout_seconds after it began, even when the process keeps printing: it
\* is not still reading after the deadline, and it has not returned after it.
C31_ReturnsByDeadline ==
    receiver.pc # "idle" /\ receiver.pattern = "timeout" =>
       /\ receiver.pc = "wait_for" => now - receiver.start_time <= timeout_seconds
       /\ receiver.pc = "returned" => receiver.returned_at - receiver.start_time <= timeout_seconds

\* The reply that ends at the i-th line the process printed: the lines
\* before it, and what is left of it without the marker when that is text.
C32_ReplyUpTo(i) ==
    SubSeq(producer.emitted, 1, i - 1)
       \o (IF remove_marker(producer.emitted[i]) # <<>> THEN <<remove_marker(producer.emitted[i])>> ELSE <<>>)

\* C32: with the end-marker strategy, a reply returned before timeout_seconds
\* have elapsed and before end of stream ends at the marker: it holds every
\* line printed before the first marker line, then that line without the
\* token when text is left, and nothing more.  A pause shorter than
\* timeout_seconds does not end the reply.
C32_ReplyEndsAtMarker ==
    (/\ receiver.pc = "returned" /\ receiver.pattern = "end_marker" /\ ~receiver.raised
     /\ receiver.ended_by # "eof"
     /\ receiver.returned_at - receiver.start_time < timeout_seconds)
    => \E i \in DOMAIN producer.emitted :
          /\ contains_marker(producer.emitted[i])
          /\ \A j \in 1..(i - 1) : ~contains_marker(producer.emitted[j])
          /\ receiver.output_lines = C32_ReplyUpTo(i)

\* C33: the reply buffer is bounded.  The text accumulated for one reply
\* never exceeds the protocol's max_buffer_size.
C33_BufferBounded ==
    receiver.pc # "idle" => joined_len(receiver.output_lines) <= max_buffer_size

\* C34: transport failures surface as errors, never as replies.  A receive
\* that ends with zero output on a timeout or at the end of the stream of a
\* process that has gone is reported as an error, not returned as an empty
\* reply.
C34_FailuresAreErrors ==
    (/\ receiver.pc = "returned"
     /\ receiver.ended_by \in {"wait_for", "eof", "timeout", "drain"}
     /\ receiver.output_lines = <<>>)
    => receiver.raised

(***************************************************************************)
(* Session snapshots                                                       *)
(***************************************************************************)

\* load_session returns True in this step, for a session whose file holds
\* what _save_session wrote for the session the orchestrator has in memory.
C35_LoadsSavedSession ==
    /\ orch_ret'.call = "load_session" /\ orch_ret'.value = "True"
    /\ session # <<>> /\ session' # <<>>
    /\ session'[1].id = session[1].id
    /\ session_file[session[1].id] = session_data(session[1])

\* C35: session snapshot round trip.  A session written by _save_session and
\* read back by load_session equals the saved session: id, state,
\* current_iteration, error_message and the per-agent status map, the
\* statuses being the values the loop compares against.
C35_SnapshotRoundTrip ==
    [][ C35_LoadsSavedSession
        => /\ session' = session
           /\ \A a \in DOMAIN session'[1].agents_status : session'[1].agents_status[a] \in AgentStatus ]_vars

(***************************************************************************)
(* Loop tasks                                                              *)
(***************************************************************************)

\* C36: at most one orchestration loop runs per session at any time.  For
\* every interleaving of pause_orchestration and resume_orchestration with
\* an iteration that is in flight, no two _orchestration_loop tasks are
\* alive for the session.
C36_OneLoopPerSession ==
    CountTasks(LoopPositions) <= 1

(***************************************************************************)
(* Completed workflows                                                     *)
(***************************************************************************)

\* C37: Completed is terminal for a workflow.  Once the state of a
\* WorkflowExecution is Completed, no later advance_phase, pause_workflow,
\* resume_workflow or stop call on it changes its state or its
\* current_phase, and it is counted as completed once: workflows_completed
\* does not grow and never exceeds workflows_started.
C37_CompletedIsTerminal ==
    [][ (/\ current_workflow # <<>> /\ current_workflow[1].state = "completed"
         /\ metrics'.workflows_started = metrics.workflows_started)
        => /\ current_workflow' # <<>>
           /\ current_workflow'[1].state = "completed"
           /\ current_workflow'[1].current_phase = current_workflow[1].current_phase
           /\ metrics'.workflows_completed = metrics.workflows_completed
           /\ metrics'.workflows_completed <= metrics'.workflows_started ]_vars


(***************************************************************************)
(* Stopped processes                                                       *)
(***************************************************************************)

\* C38: Stopped is absorbing for a managed process: once stop_terminal(id)
\* has set the status to stopped, no later step on that id moves it to
\* another status; a send_message to the stopped id does not mark it active
\* and the completion of a start_terminal that was waiting for readiness
\* does not mark it ready.
C38_StoppedIsAbsorbing ==
    [][ \A id \in TerminalIds :
           (/\ id \in DOMAIN terminal_manager.processes
            /\ terminal_manager.processes[id].status = "stopped")
           => /\ id \in DOMAIN terminal_manager'.processes
              /\ terminal_manager'.processes[id].status = "stopped" ]_vars


(***************************************************************************)
(* Bus queries                                                             *)
(***************************************************************************)

\* C39: Bus queries are read-only: a call of get_recent_messages,
\* get_message_count, get_conversation or get_statistics leaves the state of
\* the bus as it was; the history keeps its messages and their acceptance
\* order, with or without a session filter.
C39_QueriesAreReadOnly ==
    [][ bus'.queries # bus.queries => [bus' EXCEPT !.queries = bus.queries] = bus ]_vars


(***************************************************************************)
(* Order of the records                                                    *)
(***************************************************************************)

\* Where in the history the message with this id stands; 0 when it is not there.
C40_Accepted(id) ==
    IF \E k \in 1..Len(bus.messages) : bus.messages[k].id = id
    THEN CHOOSE k \in 1..Len(bus.messages) : bus.messages[k].id = id
    ELSE 0

\* C40: Records keep causal order: the lines of a session's log stand in the
\* order in which the bus accepted their messages into its history, so the
\* message that triggered an automatic handoff is recorded before the
\* handoff message it caused.
C40_LogKeepsAcceptanceOrder ==
    \A s \in DOMAIN bus.log :
        \A i, j \in 1..Len(bus.log[s]) :
            LET first  == C40_Accepted(json_get(bus.log[s][i], "id"))
                second == C40_Accepted(json_get(bus.log[s][j], "id"))
            IN (i < j /\ first > 0 /\ second > 0) => first < second

============================================================================
